---- MODULE Spec2Model ----
(***************************************************************************)
(* Sticky-session scraping engine of twitter_scraper_11.py: the proxy      *)
(* queue (ProxyQueue), the health monitor (HealthMonitor), the session     *)
(* life cycle (StickySession.open / scrape / close and its response        *)
(* interceptor), and the orchestrator (TwitterScraper._run_session and     *)
(* _parallel_scrape) with its ThreadPoolExecutor of max_parallel_sessions  *)
(* workers, the merge, the sort and the truncation.                        *)
(*                                                                         *)
(* Python values are modelled as follows.  Optional[x] is a sequence of    *)
(* length 0 (None) or 1.  A str that is compared (created_at) is the       *)
(* sequence of its character codes, compared as Python compares strings.   *)
(* The outcome of a call is a record whose field exc names the exception   *)
(* raised ("None" when the call returned) beside the returned dict's keys. *)
(***************************************************************************)
EXTENDS Integers, Sequences, FiniteSets, TLC

\* ------------------------------------------------------------------ bounds
MaxProxies   == 3   \* longest proxy file read by ProxyQueue._load
MaxResponses == 1   \* responses delivered to one session's interceptor
MaxLimit     == 2   \* largest limit argument of a scrape call
MaxBatches   == 2   \* session buffers handed to the merge in SpecMerge
MaxBatchLen  == 2   \* longest session buffer in SpecMerge
MaxSessionResponses == 3   \* responses delivered to the session of SpecSession
MaxNesting   == 2   \* wrappers around the innermost node of a payload
MaxIntercepted == 2   \* responses delivered to the session of SpecIntercept
MaxUserDepth == 8   \* deepest place of a user object below a post in SpecAuthor

\* ------------------------------------------------------- Config (dataclass)
max_parallel_sessions   == 2
tweets_per_session      == 2
max_scrolls_per_session == 2

\* ------------------------------------------------------------------ values
None == "None"

\* Proxy URLs are opaque strings; "" is an item whose "proxy" key is missing
\* or empty.
UrlNames == <<"pA", "pB", "pC", "pD", "pE">>

ProxyUrls == SubSeq(UrlNames, 1, MaxProxies)

UrlIndex(u) == CHOOSE i \in 1..Len(ProxyUrls) : ProxyUrls[i] = u

RECURSIVE SeqsUpTo(_, _)
SeqsUpTo(S, n) ==
    IF n = 0 THEN {<<>>}
    ELSE LET shorter == SeqsUpTo(S, n - 1)
         IN  shorter \cup {Append(s, x) : s \in {r \in shorter : Len(r) = n - 1}, x \in S}

UrlSet == {ProxyUrls[i] : i \in 1..Len(ProxyUrls)}

\* The proxy files the model starts from: every list of at most MaxProxies
\* items, URLs named in order of first appearance (the names are opaque).
FirstUseOrdered(f) ==
    \A i \in 1..Len(f) :
        f[i] # "" =>
            \A k \in 1..(UrlIndex(f[i]) - 1) :
                \E j \in 1..(i - 1) : f[j] = ProxyUrls[k]

ProxyFiles == {f \in SeqsUpTo(UrlSet \cup {""}, MaxProxies) : FirstUseOrdered(f)}

\* The files twitter_proxy_finder.py writes: ProxyCollector._add keeps a
\* proxy once, and every item written has its "proxy".
FinderFiles ==
    {f \in ProxyFiles : \A i, j \in 1..Len(f) : f[i] # "" /\ (i # j => f[i] # f[j])}

\* The posts the target serves: id and created_at (a string, here the
\* sequence of its characters; <<>> is a post without created_at).
Timeline ==
    { [id |-> "1001", created_at |-> <<0, 1>>],
      [id |-> "1002", created_at |-> <<0, 6>>] }

Followers == {10, 20}

\* What the interceptor sees of one response: a 429 on a target host, a
\* timeline body with error code 88, a timeline body from which
\* _extract_tweets returns one post, a profile body.
Responses ==
    {[kind |-> "r429", tweet |-> <<>>, followers |-> 0],
     [kind |-> "err88", tweet |-> <<>>, followers |-> 0]}
    \cup {[kind |-> "timeline", tweet |-> <<tw>>, followers |-> 0] : tw \in Timeline}
    \cup {[kind |-> "profile", tweet |-> <<>>, followers |-> n] : n \in Followers}

\* A timeline body may carry posts beside its errors.
RichResponses ==
    Responses \cup {[kind |-> "err88", tweet |-> <<tw>>, followers |-> 0] : tw \in Timeline}

Tasks == 1..MaxProxies

VARIABLES
    q,             \* ProxyQueue._q: the URLs still queued, head first
    stats,         \* ProxyQueue._stats: URL -> outcome fields
    total_loaded,  \* ProxyQueue._total_loaded
    health,        \* HealthMonitor totals
    RATE_LIMITED,  \* the module-level threading.Event
    opc,           \* where _parallel_scrape is: "idle", "running", "done"
    n_proxies,     \* _parallel_scrape's n_proxies
    limit,         \* _parallel_scrape's limit argument
    tasks,         \* the futures of the ThreadPoolExecutor, one _run_session each
    all_batches,   \* _parallel_scrape's all_batches
    all_profiles,  \* _parallel_scrape's all_profiles
    merged,        \* _parallel_scrape's merged, after the sort
    ret,           \* outcome of the last _parallel_scrape call
    log,           \* the last result line _parallel_scrape logged
    cookie_file,   \* the file Config.cookies_file: Missing, or what it holds
    cookie_lock,   \* COOKIE_WRITE_LOCK: Unlocked, or the task that acquired it
    payload,       \* the decoded body handed to _extract_tweets
    extracted      \* outcome of _extract_tweets(payload)

vars == <<q, stats, total_loaded, health, RATE_LIMITED, opc, n_proxies, limit,
          tasks, all_batches, all_profiles, merged, ret, log,
          cookie_file, cookie_lock, payload, extracted>>

cookieVars == <<cookie_file, cookie_lock>>
extractVars == <<payload, extracted>>

poolVars == <<q, stats, total_loaded>>
orchVars == <<opc, n_proxies, limit, all_batches, all_profiles, merged, ret, log>>

\* --------------------------------------------------------------- ProxyQueue

\* ProxyQueue._load: the queue and the stats built from the file's items.
LoadQueue(data) == SelectSeq(data, LAMBDA url : url # "")

LoadStats(data) ==
    [u \in {data[i] : i \in {j \in 1..Len(data) : data[j] # ""}} |->
        [success |-> FALSE, tweets |-> 0, elapsed |-> 0]]

\* ProxyQueue.checkout: get_nowait() under the queue's mutex.
CheckoutResult(queue) == IF queue = <<>> THEN None ELSE Head(queue)

\* A checkout that reads the head and leaves it queued.
CheckoutRest_Peek(queue) == queue

CheckoutRest(queue) == IF queue = <<>> THEN queue ELSE Tail(queue)

\* The place in the loaded queue of the entry now at the head: entries
\* leave in order and none is put back.
QueueSlot(queue, loaded) == loaded - Len(queue) + 1

\* A record that writes nothing.
Record_Nothing(st, url, success, tweets, elapsed) == st

\* ProxyQueue.record
Record(st, url, success, tweets, elapsed) ==
    IF url \in DOMAIN st
    THEN [st EXCEPT ![url] = [success |-> success, tweets |-> tweets, elapsed |-> elapsed]]
    ELSE st

\* A size that counts one entry too many.
Remaining_OneMore(queue) == Len(queue) + 1

\* ProxyQueue.remaining
Remaining(queue) == Len(queue)

RECURSIVE SumTweets(_, _)
SumTweets(st, urls) ==
    IF urls = {} THEN 0
    ELSE LET u == CHOOSE u \in urls : TRUE
         IN  st[u].tweets + SumTweets(st, urls \ {u})

\* A summary whose sessions are the successful ones only.
Summary_SuccessfulOnly(st, loaded) ==
    LET success == {u \in DOMAIN st : st[u].elapsed > 0 /\ st[u].success}
    IN  [loaded |-> loaded, ok |-> Cardinality(success), sessions |-> Cardinality(success),
         tweets |-> SumTweets(st, success)]

\* ProxyQueue.summary (lines 188-196): the numbers of
\* "{loaded} proxies | {ok}/{sessions} sessions ok | {tweets} raw tweets"
Summary(st, loaded) ==
    LET used    == {u \in DOMAIN st : st[u].elapsed > 0}
        success == {u \in used : st[u].success}
    IN  [loaded |-> loaded, ok |-> Cardinality(success), sessions |-> Cardinality(used),
         tweets |-> SumTweets(st, used)]

\* ------------------------------------------------------------ HealthMonitor
HealthInit == [sessions_run |-> 0, sessions_ok |-> 0, total_tweets |-> 0, total_elapsed |-> 0]

\* A record that counts a session only when it succeeded.
HealthRecord_OkOnly(h, success, tweets, elapsed) ==
    [sessions_run  |-> IF success THEN h.sessions_run + 1 ELSE h.sessions_run,
     sessions_ok   |-> IF success THEN h.sessions_ok + 1 ELSE h.sessions_ok,
     total_tweets  |-> IF success THEN h.total_tweets + tweets ELSE h.total_tweets,
     total_elapsed |-> h.total_elapsed + elapsed]

\* HealthMonitor.record (lines 223-229), under its lock
HealthRecord(h, success, tweets, elapsed) ==
    [sessions_run  |-> h.sessions_run + 1,
     sessions_ok   |-> IF success THEN h.sessions_ok + 1 ELSE h.sessions_ok,
     total_tweets  |-> IF success THEN h.total_tweets + tweets ELSE h.total_tweets,
     total_elapsed |-> h.total_elapsed + elapsed]

\* time.time() - t0 of a session that ran: wall time passes, so it is
\* positive; its size is not modelled.
Elapsed == 1

\* ------------------------------------------------------------ StickySession

\* A file of the disk: whether it exists and the chunks it holds.
FileOf(data) == [exists |-> TRUE, data |-> data]

\* Path(cookies_file).exists() is false.
Missing == [exists |-> FALSE, data |-> <<>>]

\* What json.dump writes for a list of cookies, as the chunks that reach the
\* file one after the other; every context has its own cookies.
CookieChunks == 2

CookieSnapshot(t) == [k \in 1..CookieChunks |-> <<t, k>>]

\* The file twitter_login_8.py leaves: the cookies of the login context.
LoginCookies == FileOf(CookieSnapshot(0))

\* The file after _save_cookies has run to its end (lines 358-360): opened
\* with "w", so what it held is gone, then the whole dump.
SaveCookies(file, cookies) == FileOf(cookies)

\* open(cookies_file, "w"): the file exists and is empty.
OpenW(file) == FileOf(<<>>)

\* What a reader finds where nothing was written.
Hole == <<0, 0>>

\* A write that never reaches the file.
WriteAt_Lost(file, pos, chunk) == file

\* f.write of one chunk at the writer's own position pos.
WriteAt(file, pos, chunk) ==
    IF pos <= Len(file.data)
    THEN FileOf([file.data EXCEPT ![pos] = chunk])
    ELSE FileOf(file.data \o [i \in 1..(pos - Len(file.data) - 1) |-> Hole] \o <<chunk>>)

\* threading.Lock(): unlocked, or locked by the task that acquired it.
Unlocked == 0

\* A lock every acquire() gets at once.
LockFree_Always(l) == TRUE

\* acquire() returns only while the lock is unlocked.
LockFree(l) == l = Unlocked

\* A load that waits while a writer holds the lock.
ReadWaits_ForWriter(l) == l # Unlocked

\* _load_cookies (lines 339-352) opens and reads the file without acquiring
\* COOKIE_WRITE_LOCK: it never waits, whatever the state l of the lock.
ReadWaits(l) == FALSE

\* _load_cookies (lines 339-352) can return True: the file exists and
\* json.load accepts what it holds, a whole dump.
CookiesLoadable(file) ==
    /\ file.exists
    /\ \E t \in 0..MaxProxies : file.data = CookieSnapshot(t)

\* StickySession.__init__ (the fields of a future before its task runs)
NewTask ==
    [pc |-> "unused", proxy |-> None, slot |-> 0, bucket |-> <<>>, profile |-> <<>>,
     opened |-> FALSE, browser |-> FALSE, wpos |-> 0, navigated |-> FALSE,
     nresp |-> 0, scroll_n |-> 0, setting |-> FALSE, handled |-> <<>>,
     ostep |-> 0, interceptor |-> FALSE,
     raised |-> FALSE, rec |-> <<>>, out_tweets |-> <<>>, out_profile |-> <<>>]

\* _launch (lines 295-316): the session holds a browser and its context.
Launch(s) == [s EXCEPT !.browser = TRUE]

\* An open() that registers no handler.
AttachInterceptor_Skipped(s) == s

\* _attach_interceptor (lines 364-406): self._page.on("response", on_response)
AttachInterceptor(s) == [s EXCEPT !.interceptor = TRUE]

\* A shutdown that closes nothing.
Shutdown_Leak(s) == s

\* _shutdown (lines 330-337): the browser and the driver are closed.
Shutdown(s) == [s EXCEPT !.browser = FALSE]

\* A set() that flips the flag.
EventSet_Toggle(e) == ~e

\* threading.Event.set()
EventSet(e) == TRUE

\* A clear() that leaves the flag as it is.
EventClear_Keep(e) == e

\* threading.Event.clear()
EventClear(e) == FALSE

\* scraped_at of a post captured by session t from its k-th response: every
\* capture has its own value.
CaptureStamp(t, k) == t * 10 + k

\* The dict _extract_tweets builds for a post of the timeline.
Post(tw, t, k) == [id |-> tw.id, created_at |-> tw.created_at, cap |-> CaptureStamp(t, k)]

\* An interceptor that appends whatever posts a body carries.
OnResponseSession_AppendsAll(s, r, t) ==
    IF r.kind = "profile"
    THEN [s EXCEPT !.nresp = @ + 1,
                   !.profile = IF s.profile = <<>> THEN <<[followers |-> r.followers]>> ELSE @]
    ELSE IF r.tweet # <<>>
    THEN [s EXCEPT !.nresp = @ + 1,
                   !.bucket = @ \o <<Post(r.tweet[1], t, s.nresp + 1)>>]
    ELSE [s EXCEPT !.nresp = @ + 1]

\* An interceptor that keeps the last profile it sees.
OnResponseSession_Overwrites(s, r, t) ==
    IF r.kind = "profile"
    THEN [s EXCEPT !.nresp = @ + 1, !.profile = <<[followers |-> r.followers]>>]
    ELSE IF r.kind = "timeline"
    THEN [s EXCEPT !.nresp = @ + 1,
                   !.bucket = @ \o [i \in 1..Len(r.tweet) |-> Post(r.tweet[i], t, s.nresp + 1)]]
    ELSE [s EXCEPT !.nresp = @ + 1]

\* on_response, the part that changes the session: a profile is stored only
\* if the session has none; every extracted post is appended to _bucket.
OnResponseSession(s, r, t) ==
    IF r.kind = "profile"
    THEN [s EXCEPT !.nresp = @ + 1,
                   !.profile = IF s.profile = <<>> THEN <<[followers |-> r.followers]>> ELSE @]
    ELSE IF r.kind = "timeline"
    THEN [s EXCEPT !.nresp = @ + 1,
                   !.bucket = @ \o [i \in 1..Len(r.tweet) |-> Post(r.tweet[i], t, s.nresp + 1)]]
    ELSE [s EXCEPT !.nresp = @ + 1]

\* A loop head without the test of line 447.
NextScrollStarts_IgnoreSignal(n, rl) == n < max_scrolls_per_session

\* The head of scrape()'s scroll loop after n steps: step n + 1 starts if
\* the range is not used up (line 446) and the signal is clear (line 447).
NextScrollStarts(n, rl) == n < max_scrolls_per_session /\ ~rl

\* A loop that never tests the target.
TargetReached_Never(s) == FALSE

\* if n >= target (line 455), tested at the end of a scroll step
TargetReached(s) == Len(s.bucket) >= tweets_per_session

\* ---------------------------------------------------------- Tweet extractor
\* A decoded JSON value.  A str is the sequence of its characters; a dict is
\* its keys and its values in the order of the body; a list is its items.

JValue(type, str, num, keys, vals) ==
    [type |-> type, s |-> str, n |-> num, keys |-> keys, vals |-> vals]

JNull == JValue("null", <<>>, 0, <<>>, <<>>)

JStr(str) == JValue("str", str, 0, <<>>, <<>>)

JNum(num) == JValue("num", <<>>, num, <<>>, <<>>)

JList(items) == JValue("list", <<>>, 0, <<>>, items)

JDict(keys, vals) == JValue("dict", <<>>, 0, keys, vals)

\* key in d
HasKey(d, key) == \E i \in 1..Len(d.keys) : d.keys[i] = key

\* d.get(key, default)
GetOr(d, key, default) ==
    IF HasKey(d, key)
    THEN d.vals[CHOOSE i \in 1..Len(d.keys) : d.keys[i] = key]
    ELSE default

\* bool(v)
Truthy(v) ==
    CASE v.type = "null" -> FALSE
      [] v.type = "str"  -> v.s # <<>>
      [] v.type = "num"  -> v.n # 0
      [] OTHER           -> v.vals # <<>>

\* str.isdigit(), for the characters the bodies are written in
IsDigit(str) == str # <<>> /\ \A i \in 1..Len(str) : str[i] \in {"0", "1", "2", "9"}

\* str.startswith(prefix)
StartsWith(str, prefix) ==
    Len(str) >= Len(prefix) /\ SubSeq(str, 1, Len(prefix)) = prefix

\* str.strip()
RECURSIVE LStrip(_)
LStrip(str) ==
    IF str # <<>> /\ Head(str) = " " THEN LStrip(Tail(str)) ELSE str

RECURSIVE RStrip(_)
RStrip(str) ==
    IF str # <<>> /\ str[Len(str)] = " "
    THEN RStrip(SubSeq(str, 1, Len(str) - 1))
    ELSE str

Strip(str) == RStrip(LStrip(str))

\* str.replace(old, new): every occurrence, left to right, not overlapping
RECURSIVE Replace(_, _, _)
Replace(str, old, new) ==
    IF str = <<>> THEN <<>>
    ELSE IF StartsWith(str, old)
    THEN new \o Replace(SubSeq(str, Len(old) + 1, Len(str)), old, new)
    ELSE <<Head(str)>> \o Replace(Tail(str), old, new)

\* The four replacements of lines 593-598, in their order.
CleanText(text) ==
    Replace(Replace(Replace(Replace(text,
        <<"&", "a", "m", "p", ";">>, <<"&">>),
        <<"&", "l", "t", ";">>, <<"<">>),
        <<"&", "g", "t", ";">>, <<">">>),
        <<"&", "q", "u", "o", "t", ";">>, <<"\"">>)

\* An id test that takes every non-empty string.
IsTweetId_NonEmpty(value) ==
    IF ~Truthy(value) THEN "False"
    ELSE IF value.type # "str" THEN "raise"
    ELSE "True"

\* _is_tweet_id (lines 474-480): "True", "False", or "raise" when the value
\* is truthy and has no startswith.
IsTweetId(value) ==
    IF ~Truthy(value) THEN "False"
    ELSE IF value.type # "str" THEN "raise"
    ELSE IF StartsWith(value.s, <<"h", "t", "t", "p">>) THEN "False"
    ELSE IF IsDigit(value.s) THEN "True" ELSE "False"

\* A classification that looks at the reply first.
Classify_ReplyFirst(obj, leg) ==
    IF Truthy(GetOr(leg, "in_reply_to_status_id_str", JStr(<<>>))) THEN "reply"
    ELSE IF GetOr(leg, "retweeted_status_result", JNull) # JNull THEN "retweet"
    ELSE IF GetOr(obj, "quoted_status_result", JNull) # JNull THEN "quote"
    ELSE "original"

\* tweet_type (lines 580-590)
Classify(obj, leg) ==
    LET is_retweet == GetOr(leg, "retweeted_status_result", JNull) # JNull
        is_quote   == GetOr(obj, "quoted_status_result", JNull) # JNull
        is_reply   == Truthy(GetOr(leg, "in_reply_to_status_id_str", JStr(<<>>)))
    IN  IF is_retweet THEN "retweet"
        ELSE IF is_quote THEN "quote"
        ELSE IF is_reply THEN "reply"
        ELSE "original"

\* leg.get("full_text", leg.get("text", "")) (line 565), before .strip()
RawText(leg) == GetOr(leg, "full_text", GetOr(leg, "text", JStr(<<>>)))

\* The tweet dict of lines 602-652, the fields the model follows.
TweetDict(obj, leg, text) ==
    [id         |-> GetOr(obj, "rest_id", JStr(<<>>)).s,
     text       |-> CleanText(text),
     created_at |-> GetOr(leg, "created_at", JStr(<<>>)),
     tweet_type |-> Classify(obj, leg)]

\* A walk that leaves a rejected candidate without looking inside.
RejectedChildren_Skipped(obj) == <<>>

\* for v in obj.values() of a rejected candidate (lines 568-569)
RejectedChildren(obj) == obj.vals

\* A walk that leaves a duplicate without looking inside.
DuplicateChildren_Skipped(obj) == <<>>

\* for v in obj.values() of a candidate whose identifier was seen (lines
\* 572-575)
DuplicateChildren(obj) == obj.vals

\* walk (lines 560-659) with the state it works on: tweets, seen_ids and
\* whether an exception is on its way out of _extract_tweets.
RECURSIVE Walk(_, _)
RECURSIVE WalkValues(_, _)
Walk(obj, st) ==
    IF st.exc THEN st
    ELSE IF obj.type = "dict"
    THEN IF HasKey(obj, "legacy") /\ HasKey(obj, "rest_id")
         THEN LET rest_id == GetOr(obj, "rest_id", JStr(<<>>))
                  leg     == GetOr(obj, "legacy", JDict(<<>>, <<>>))
              IN  IF leg.type # "dict" THEN [st EXCEPT !.exc = TRUE]
                  ELSE IF RawText(leg).type # "str" THEN [st EXCEPT !.exc = TRUE]
                  ELSE IF IsTweetId(rest_id) = "raise" THEN [st EXCEPT !.exc = TRUE]
                  ELSE LET text == Strip(RawText(leg).s)
                       IN  IF IsTweetId(rest_id) = "False" \/ text = <<>>
                           THEN WalkValues(RejectedChildren(obj), st)
                           ELSE IF rest_id.s \in st.seen
                           THEN WalkValues(DuplicateChildren(obj), st)
                           ELSE WalkValues(obj.vals,
                                    [st EXCEPT !.seen = @ \cup {rest_id.s},
                                               !.tweets = Append(@, TweetDict(obj, leg, text))])
         ELSE WalkValues(obj.vals, st)
    ELSE IF obj.type = "list" THEN WalkValues(obj.vals, st)
    ELSE st

WalkValues(values, st) ==
    IF values = <<>> \/ st.exc THEN st
    ELSE WalkValues(Tail(values), Walk(Head(values), st))

\* _extract_tweets (lines 550-662): the list returned, or the exception.
ExtractTweets(data) ==
    LET st == Walk(data, [tweets |-> <<>>, seen |-> {}, exc |-> FALSE])
    IN  IF st.exc THEN [exc |-> "Exception", tweets |-> <<>>]
        ELSE [exc |-> "None", tweets |-> st.tweets]

\* _extract_tweets has not been called.
NotExtracted == [exc |-> "NotCalled", tweets |-> <<>>]

\* ------------------------------------------------------------- orchestrator

\* str < str, as Python compares: by the first differing character, a proper
\* prefix being smaller.
RECURSIVE LexLess(_, _)
LexLess(a, b) ==
    IF a = <<>> THEN b # <<>>
    ELSE IF b = <<>> THEN FALSE
    ELSE IF Head(a) # Head(b) THEN Head(a) < Head(b)
    ELSE LexLess(Tail(a), Tail(b))

\* A merge in which a later copy of an id replaces the copy already kept.
RECURSIVE DedupInto_KeepLast(_, _)
DedupInto_KeepLast(acc, posts) ==
    IF posts = <<>> THEN acc
    ELSE LET p == Head(posts)
             seen == {acc[i].id : i \in 1..Len(acc)}
         IN  IF p.id = "" THEN DedupInto_KeepLast(acc, Tail(posts))
             ELSE IF p.id \notin seen
             THEN DedupInto_KeepLast(Append(acc, p), Tail(posts))
             ELSE DedupInto_KeepLast([i \in 1..Len(acc) |-> IF acc[i].id = p.id THEN p ELSE acc[i]],
                                     Tail(posts))

\* The dedup loop of _parallel_scrape (lines 796-803): batches in list order,
\* each batch in order, a post kept if its id is non-empty and unseen.
RECURSIVE DedupInto(_, _)
DedupInto(acc, posts) ==
    IF posts = <<>> THEN acc
    ELSE LET p == Head(posts)
             seen == {acc[i].id : i \in 1..Len(acc)}
         IN  IF p.id # "" /\ p.id \notin seen
             THEN DedupInto(Append(acc, p), Tail(posts))
             ELSE DedupInto(acc, Tail(posts))

RECURSIVE Flatten(_)
Flatten(batches) ==
    IF batches = <<>> THEN <<>> ELSE Head(batches) \o Flatten(Tail(batches))

MergeDedup(batches) == DedupInto(<<>>, Flatten(batches))

\* The sort without reverse=True.
RECURSIVE InsertDesc_Ascending(_, _)
InsertDesc_Ascending(sorted, p) ==
    IF sorted = <<>> THEN <<p>>
    ELSE IF LexLess(p.created_at, Head(sorted).created_at)
         THEN <<p>> \o sorted
         ELSE <<Head(sorted)>> \o InsertDesc_Ascending(Tail(sorted), p)

\* list.sort(key=created_at, reverse=True): stable, so a post goes behind
\* every post already placed whose key is not smaller.
RECURSIVE InsertDesc(_, _)
InsertDesc(sorted, p) ==
    IF sorted = <<>> THEN <<p>>
    ELSE IF LexLess(Head(sorted).created_at, p.created_at)
         THEN <<p>> \o sorted
         ELSE <<Head(sorted)>> \o InsertDesc(Tail(sorted), p)

RECURSIVE SortInto(_, _)
SortInto(sorted, posts) ==
    IF posts = <<>> THEN sorted
    ELSE SortInto(InsertDesc(sorted, Head(posts)), Tail(posts))

SortDesc(posts) == SortInto(<<>>, posts)

\* merged[:limit + 1]
Truncate_OffByOne(posts, n) == SubSeq(posts, 1, IF n + 1 < Len(posts) THEN n + 1 ELSE Len(posts))

\* merged[:limit], limit >= 0
Truncate(posts, n) == SubSeq(posts, 1, IF n < Len(posts) THEN n ELSE Len(posts))

\* The first profile collected.
BestProfile_First(profiles) == IF profiles = <<>> THEN <<>> ELSE <<profiles[1]>>

\* max(all_profiles, key=followers): the first profile of maximal followers
BestProfile(profiles) ==
    IF profiles = <<>> THEN <<>>
    ELSE LET i == CHOOSE i \in 1..Len(profiles) :
                    /\ \A j \in 1..Len(profiles) : profiles[j].followers <= profiles[i].followers
                    /\ \A j \in 1..(i - 1) : profiles[j].followers < profiles[i].followers
         IN  <<profiles[i]>>

\* The dict _parallel_scrape returns (line 820), as the outcome of the call.
ReturnValue(sortedMerged, profiles, n) ==
    [exc |-> "None", tweets |-> Truncate(sortedMerged, n), profile |-> BestProfile(profiles)]

\* The result line without the test of the signal.
ResultLog_AlwaysDone(rl) == "info_done"

\* The line logged once the merge is done (lines 808-814).
ResultLog(rl) == IF rl THEN "warning_ended_early" ELSE "info_done"

\* The early return of line 771.
EmptyPoolReturn == [exc |-> "None", tweets |-> <<>>, profile |-> <<>>]

\* The test of line 769 never taken.
PoolEmpty_Never(n) == n < 0

\* if n_proxies == 0 (line 769)
PoolEmpty(n) == n = 0

\* ThreadPoolExecutor(max_workers=n_workers): a queued task is taken only by
\* an idle worker, i.e. while fewer than n_workers tasks are running.
Running == {t \in Tasks : tasks[t].pc \notin {"unused", "pending", "done"}}

\* The executor of the version before "Bug 1" was fixed: every task at once.
WorkerIdle_Unbounded == TRUE

WorkerIdle == Cardinality(Running) < max_parallel_sessions

\* ----------------------------------------------------------------- actions

Init ==
    \E data \in FinderFiles, cookies \in {Missing, LoginCookies} :
        /\ cookie_file = cookies
        /\ q = LoadQueue(data)
        /\ stats = LoadStats(data)
        /\ total_loaded = Len(LoadQueue(data))
        /\ health = HealthInit
        /\ RATE_LIMITED = FALSE
        /\ opc = "idle"
        /\ n_proxies = 0
        /\ limit = 0
        /\ tasks = [t \in Tasks |-> NewTask]
        /\ all_batches = <<>>
        /\ all_profiles = <<>>
        /\ merged = <<>>
        /\ ret = EmptyPoolReturn
        /\ log = "none"
        /\ cookie_lock = Unlocked
        /\ payload = JNull
        /\ extracted = NotExtracted

\* _parallel_scrape called with an empty pool (lines 766-771): the call has
\* fresh locals, submits nothing and returns before the signal is cleared.
ScrapeEmptyPool(lim) ==
    /\ opc \in {"idle", "done"}
    /\ PoolEmpty(Remaining(q))
    /\ opc' = "done"
    /\ n_proxies' = Remaining(q)
    /\ limit' = lim
    /\ log' = "error_no_proxies"
    /\ ret' = EmptyPoolReturn
    /\ tasks' = [t \in Tasks |-> NewTask]
    /\ all_batches' = <<>>
    /\ all_profiles' = <<>>
    /\ merged' = <<>>
    /\ UNCHANGED <<poolVars, health, RATE_LIMITED, cookieVars, extractVars>>

\* _parallel_scrape called with proxies left: the signal is cleared and one
\* _run_session per proxy is submitted (lines 766-785).  The limit argument
\* is read only by the log line 778 and by line 820; the model draws it
\* where line 820 reads it.
ScrapeBegin ==
    /\ opc \in {"idle", "done"}
    /\ ~PoolEmpty(Remaining(q))
    /\ opc' = "running"
    /\ n_proxies' = Remaining(q)
    /\ RATE_LIMITED' = EventClear(RATE_LIMITED)
    /\ tasks' = [t \in Tasks |-> IF t <= Remaining(q) THEN [NewTask EXCEPT !.pc = "pending"] ELSE NewTask]
    /\ all_batches' = <<>>
    /\ all_profiles' = <<>>
    /\ merged' = <<>>
    /\ UNCHANGED <<poolVars, health, limit, ret, log, cookieVars, extractVars>>

\* A loop that puts the latest result first.
Collect_Prepend(tweets, profile) ==
    /\ all_batches' = <<tweets>> \o all_batches
    /\ all_profiles' = all_profiles \o profile

\* What as_completed's loop body does with a finished future (lines 788-792).
Collect(tweets, profile) ==
    /\ all_batches' = Append(all_batches, tweets)
    /\ all_profiles' = all_profiles \o profile

\* _run_session up to the construction of the session (lines 731-737); a
\* task that finds the queue empty returns [], None.
RunSessionCheckout(t) ==
    /\ opc = "running"
    /\ tasks[t].pc = "pending"
    /\ WorkerIdle
    /\ q' = CheckoutRest(q)
    /\ IF CheckoutResult(q) = None
       THEN /\ tasks' = [tasks EXCEPT ![t].pc = "done"]
            /\ Collect(<<>>, <<>>)
       ELSE /\ tasks' = [tasks EXCEPT ![t].pc = "created", ![t].proxy = CheckoutResult(q),
                                      ![t].slot = QueueSlot(q, total_loaded)]
            /\ UNCHANGED <<all_batches, all_profiles>>
    /\ UNCHANGED <<stats, total_loaded, health, RATE_LIMITED, opc, n_proxies, limit, merged, ret, log, cookieVars, extractVars>>

\* A failed open recorded as a success.
OpenFailedOutcome_Success == [success |-> TRUE, tweets |-> 0]

\* The outcome _run_session records when open() returned False (lines 741-744).
OpenFailedOutcome == [success |-> FALSE, tweets |-> 0]

\* A session that scraped recorded as a failure.
ScrapedOutcome_Failed(tweets) == [success |-> FALSE, tweets |-> 0]

\* A session that returned no post recorded as a failure.
ScrapedOutcome_FailedWhenEmpty(tweets) == [success |-> Len(tweets) > 0, tweets |-> Len(tweets)]

\* The outcome _run_session records after scrape() returned (lines 750-751).
ScrapedOutcome(tweets) == [success |-> TRUE, tweets |-> Len(tweets)]

\* A future whose _run_session has returned (tweets, profile) after recording
\* outcome o: the session object is garbage, the future keeps the result.
Returned(s, o, tweets, profile) ==
    [NewTask EXCEPT !.pc = "done", !.proxy = s.proxy, !.slot = s.slot,
                    !.opened = s.opened, !.browser = s.browser, !.raised = s.raised,
                    !.rec = <<o>>,
                    !.out_tweets = tweets, !.out_profile = profile]

\* A load that finds cookies where there is no file.
CanOpen_NoStoreNeeded(file) == TRUE

\* open() can return True (lines 410-417): whether the launch raises is up
\* to the browser, and _load_cookies must return True.
CanOpen(file) == CookiesLoadable(file)

\* open() returned False (lines 412-415, 418-421): _shutdown has closed what
\* the launch acquired; _run_session records the failure and returns
\* [], None (lines 740-744), which the orchestrator collects.
OpenFailedReturn(t) ==
    /\ tasks' = [tasks EXCEPT ![t] = Returned(Shutdown(Launch(@)), OpenFailedOutcome, <<>>, <<>>)]
    /\ stats' = Record(stats, tasks[t].proxy, OpenFailedOutcome.success,
                       OpenFailedOutcome.tweets, Elapsed)
    /\ health' = HealthRecord(health, OpenFailedOutcome.success,
                              OpenFailedOutcome.tweets, Elapsed)
    /\ Collect(<<>>, <<>>)

\* session.open() (lines 408-421) and, when it fails, the rest of
\* _run_session (lines 740-744).  open() fails when the launch raises or
\* when the cookie file is missing or unreadable; it then shuts down what
\* the launch acquired.
SessionOpen(t, ok) ==
    /\ tasks[t].pc = "created"
    /\ ~ReadWaits(cookie_lock)
    /\ ok => CanOpen(cookie_file)
    /\ IF ok
       THEN /\ tasks' = [tasks EXCEPT ![t] = [AttachInterceptor(Launch(@))
                                               EXCEPT !.pc = "opened", !.opened = TRUE]]
            /\ UNCHANGED <<stats, health, all_batches, all_profiles>>
       ELSE OpenFailedReturn(t)
    /\ UNCHANGED <<q, total_loaded, RATE_LIMITED, opc, n_proxies, limit, merged, ret, log, cookieVars, extractVars>>

\* A scrape() that returns nothing after an error.
ScrapeReturned_NothingOnError(s, raised) ==
    [s EXCEPT !.pc = "scraped", !.nresp = 0, !.raised = raised,
              !.bucket = IF raised THEN <<>> ELSE @,
              !.profile = IF raised THEN <<>> ELSE @]

\* scrape() has returned (lines 427, 435, 462): the page delivers no further
\* response to the interceptor; scroll_n stays at the number of scroll steps
\* the call started (the last "scroll n/cap" it logged) until close() starts
\* or the task ends.
ScrapeReturned(s, raised) ==
    [s EXCEPT !.pc = "scraped", !.nresp = 0, !.raised = raised]

\* A scrape() that never returns early.
SkipsScrape_Never(rl) == FALSE

\* if RATE_LIMITED.is_set(): return list(self._bucket), self._profile
\* (lines 425-427 and 434-435)
SkipsScrape(rl) == rl

\* scrape(): the first test of the signal (lines 425-432); the session
\* either returns at once or starts its stagger sleep.
ScrapeEnter(t) ==
    /\ tasks[t].pc = "opened"
    /\ tasks' = [tasks EXCEPT ![t] = IF SkipsScrape(RATE_LIMITED)
                                     THEN ScrapeReturned(@, FALSE)
                                     ELSE [@ EXCEPT !.pc = "stagger"]]
    /\ UNCHANGED <<poolVars, health, RATE_LIMITED, orchVars, cookieVars, extractVars>>

\* scrape(): the stagger sleep ends, the signal is tested again and the
\* navigation starts (lines 432-439).
StaggerEnd(t) ==
    /\ tasks[t].pc = "stagger"
    /\ tasks' = [tasks EXCEPT ![t] = IF SkipsScrape(RATE_LIMITED)
                                     THEN ScrapeReturned(@, FALSE)
                                     ELSE [@ EXCEPT !.pc = "navigating", !.navigated = TRUE]]
    /\ UNCHANGED <<poolVars, health, RATE_LIMITED, orchVars, cookieVars, extractVars>>

\* The session after on_response has handled r, up to the set() of the
\* signal: a rate-limit response tests the signal (lines 368, 396).
InterceptedBy(s, r, t) ==
    IF r.kind \in {"r429", "err88"}
    THEN [OnResponseSession(s, r, t) EXCEPT !.setting = ~RATE_LIMITED]
    ELSE OnResponseSession(s, r, t)

\* on_response (lines 365-403) for a response that arrives while the page
\* loads or scrolls.  A rate-limit response tests the signal and, if it is
\* clear, goes on to set it (RateLimitedSet).
Intercept(t, r) ==
    /\ tasks[t].pc \in {"navigating", "scrolling"}
    /\ tasks[t].interceptor
    /\ ~tasks[t].setting
    /\ tasks' = [tasks EXCEPT ![t] = InterceptedBy(@, r, t)]
    /\ UNCHANGED <<poolVars, health, RATE_LIMITED, orchVars, cookieVars, extractVars>>

OnResponse(t, r) ==
    /\ tasks[t].nresp < MaxResponses
    /\ Intercept(t, r)

\* RATE_LIMITED.set() (lines 369 and 397), after the test found it clear.
RateLimitedSet(t) ==
    /\ tasks[t].setting
    /\ RATE_LIMITED' = EventSet(RATE_LIMITED)
    /\ tasks' = [tasks EXCEPT ![t].setting = FALSE]
    /\ UNCHANGED <<poolVars, health, orchVars, cookieVars, extractVars>>

\* A scrape() that catches the error of goto where it is raised and goes on.
EntersScrollLoop_AfterError(raises, rl) == NextScrollStarts(0, rl)

\* After goto (line 439): the settle sleep (line 441) and the first scroll
\* step (lines 446-450) follow only if goto returned; if it raised, control
\* is at the except of line 459, past the loop.
EntersScrollLoop(raises, rl) == ~raises /\ NextScrollStarts(0, rl)

\* scrape(): goto and the settle sleep end (lines 439-449).  If goto raised,
\* the except of line 459 ends scrape(); else the scroll loop is entered.
NavigateEnd(t, raises) ==
    /\ tasks[t].pc = "navigating"
    /\ ~tasks[t].setting
    /\ IF EntersScrollLoop(raises, RATE_LIMITED)
       THEN tasks' = [tasks EXCEPT ![t].pc = "scrolling", ![t].scroll_n = 1]
       ELSE tasks' = [tasks EXCEPT ![t] = ScrapeReturned(@, raises)]
    /\ UNCHANGED <<poolVars, health, RATE_LIMITED, orchVars, cookieVars, extractVars>>

\* scrape(): one scroll step ends (lines 450-457) and the loop goes on or
\* ends (lines 446-449); evaluate may raise.
ScrollEnd(t, raises) ==
    /\ tasks[t].pc = "scrolling"
    /\ ~tasks[t].setting
    /\ IF raises
       THEN tasks' = [tasks EXCEPT ![t] = ScrapeReturned(@, TRUE)]
       ELSE IF TargetReached(tasks[t]) \/ ~NextScrollStarts(tasks[t].scroll_n, RATE_LIMITED)
       THEN tasks' = [tasks EXCEPT ![t] = ScrapeReturned(@, FALSE)]
       ELSE tasks' = [tasks EXCEPT ![t].scroll_n = @ + 1]
    /\ UNCHANGED <<poolVars, health, RATE_LIMITED, orchVars, cookieVars, extractVars>>

\* scrape() returns a copy of the bucket and the profile; _run_session
\* closes the session, records the outcome and returns (lines 746-752); the
\* orchestrator collects the result (lines 787-792).  No step of scrape()
\* or close() raises into _run_session: scrape() catches every Exception
\* (line 459), _save_cookies and _shutdown catch their own (lines 361, 336);
\* so the handler of lines 754-763 has no step here.  RecordAndReturn is
\* what follows the save of the cookies: _shutdown, the two records, the
\* return and the orchestrator's collection of the result.
RecordAndReturn(t) ==
    LET tweets == tasks[t].bucket
        profile == tasks[t].profile
        o == ScrapedOutcome(tweets)
    IN  /\ tasks' = [tasks EXCEPT ![t] = Returned(Shutdown(@), o, tweets, profile)]
        /\ stats' = Record(stats, tasks[t].proxy, o.success, o.tweets, Elapsed)
        /\ health' = HealthRecord(health, o.success, o.tweets, Elapsed)
        /\ Collect(tweets, profile)

\* saved is false when _save_cookies fails before it writes (context.cookies()
\* or open() raises, caught at line 361); else the file holds the session's
\* cookies when the lock is released.
SessionFinish(t, saved) ==
    /\ tasks[t].pc = "scraped"
    /\ cookie_file' = IF saved THEN SaveCookies(cookie_file, CookieSnapshot(t)) ELSE cookie_file
    /\ RecordAndReturn(t)
    /\ UNCHANGED <<q, total_loaded, RATE_LIMITED, opc, n_proxies, limit, merged, ret, log, cookie_lock, extractVars>>

\* _parallel_scrape after the executor has shut down (lines 796-820).
Finalize(lim) ==
    /\ opc = "running"
    /\ \A t \in Tasks : tasks[t].pc \in {"unused", "done"}
    /\ opc' = "done"
    /\ limit' = lim
    /\ merged' = SortDesc(MergeDedup(all_batches))
    /\ log' = ResultLog(RATE_LIMITED)
    /\ ret' = ReturnValue(SortDesc(MergeDedup(all_batches)), all_profiles, lim)
    /\ UNCHANGED <<poolVars, health, RATE_LIMITED, n_proxies, tasks, all_batches, all_profiles, cookieVars, extractVars>>

Next ==
    \/ \E lim \in 0..MaxLimit : ScrapeEmptyPool(lim)
    \/ ScrapeBegin
    \/ \E t \in Tasks : RunSessionCheckout(t)
    \/ \E t \in Tasks, ok \in BOOLEAN : SessionOpen(t, ok)
    \/ \E t \in Tasks : ScrapeEnter(t)
    \/ \E t \in Tasks : StaggerEnd(t)
    \/ \E t \in Tasks, r \in Responses : OnResponse(t, r)
    \/ \E t \in Tasks : RateLimitedSet(t)
    \/ \E t \in Tasks, raises \in BOOLEAN : NavigateEnd(t, raises)
    \/ \E t \in Tasks, raises \in BOOLEAN : ScrollEnd(t, raises)
    \/ \E t \in Tasks, saved \in BOOLEAN : SessionFinish(t, saved)
    \/ \E lim \in 0..MaxLimit : Finalize(lim)

Spec == Init /\ [][Next]_vars

\* ------------------------------------------------ progress of the workers
\* A scrape call on a pool of two proxies, with the steps of _run_session
\* that a worker thread takes by itself: every sleep ends, goto returns or
\* times out (timeout=30000), every call returns or raises.  The arrival of
\* a response is up to the target and is not among them.
InitLive == Init /\ total_loaded = 2

RunSessionStep(t) ==
    \/ RunSessionCheckout(t)
    \/ \E ok \in BOOLEAN : SessionOpen(t, ok)
    \/ ScrapeEnter(t)
    \/ StaggerEnd(t)
    \/ RateLimitedSet(t)
    \/ \E raises \in BOOLEAN : NavigateEnd(t, raises)
    \/ \E raises \in BOOLEAN : ScrollEnd(t, raises)
    \/ \E saved \in BOOLEAN : SessionFinish(t, saved)

SpecLive == InitLive /\ [][Next]_vars /\ \A t \in Tasks : WF_vars(RunSessionStep(t))

\* The whole call: besides the workers, the thread that called
\* _parallel_scrape goes on when the executor's with-block ends (line 794).
SpecCall ==
    SpecLive /\ WF_vars(\E lim \in 0..MaxLimit : Finalize(lim))

\* ------------------------------------------------ one session, in detail
\* A scrape call on a pool of one proxy: the one session receives up to
\* MaxSessionResponses responses, of any kind, while it loads and scrolls.

InitSession ==
    \E cookies \in {Missing, LoginCookies} :
        /\ cookie_file = cookies
        /\ q = LoadQueue(<<ProxyUrls[1]>>)
        /\ stats = LoadStats(<<ProxyUrls[1]>>)
        /\ total_loaded = 1
        /\ health = HealthInit
        /\ RATE_LIMITED = FALSE
        /\ opc = "idle"
        /\ n_proxies = 0
        /\ limit = 0
        /\ tasks = [t \in Tasks |-> NewTask]
        /\ all_batches = <<>>
        /\ all_profiles = <<>>
        /\ merged = <<>>
        /\ ret = EmptyPoolReturn
        /\ log = "none"
        /\ cookie_lock = Unlocked
        /\ payload = JNull
        /\ extracted = NotExtracted

SessionResponse(t, r) ==
    /\ tasks[t].nresp < MaxSessionResponses
    /\ Intercept(t, r)

NextSession ==
    \/ \E lim \in 0..MaxLimit : ScrapeEmptyPool(lim)
    \/ ScrapeBegin
    \/ \E t \in Tasks : RunSessionCheckout(t)
    \/ \E t \in Tasks, ok \in BOOLEAN : SessionOpen(t, ok)
    \/ \E t \in Tasks : ScrapeEnter(t)
    \/ \E t \in Tasks : StaggerEnd(t)
    \/ \E t \in Tasks, r \in RichResponses : SessionResponse(t, r)
    \/ \E t \in Tasks : RateLimitedSet(t)
    \/ \E t \in Tasks, raises \in BOOLEAN : NavigateEnd(t, raises)
    \/ \E t \in Tasks, raises \in BOOLEAN : ScrollEnd(t, raises)
    \/ \E t \in Tasks, saved \in BOOLEAN : SessionFinish(t, saved)
    \/ \E lim \in 0..MaxLimit : Finalize(lim)

SpecSession == InitSession /\ [][NextSession]_vars

\* ------------------------------------- several scrape calls in one process
\* RATE_LIMITED is a module-level Event (line 70): it outlives the queue and
\* the scraper.  A queue hands out each proxy once, so a scrape call that
\* follows another one finds proxies only in a newly constructed queue.

\* ProxyQueue(cfg.proxies_file) and TwitterScraper(pq, cfg) constructed again
\* (lines 139-166, 714-722), between two scrape calls, from a file of one
\* proxy; the locals of the last call are gone and its result is consumed
\* (the last line logged stays in the log).
NewScraper ==
    /\ opc = "done"
    /\ opc' = "idle"
    /\ q' = LoadQueue(<<ProxyUrls[1]>>)
    /\ stats' = LoadStats(<<ProxyUrls[1]>>)
    /\ total_loaded' = Len(LoadQueue(<<ProxyUrls[1]>>))
    /\ health' = HealthInit
    /\ tasks' = [t \in Tasks |-> NewTask]
    /\ all_batches' = <<>>
    /\ all_profiles' = <<>>
    /\ merged' = <<>>
    /\ n_proxies' = 0
    /\ limit' = 0
    /\ ret' = EmptyPoolReturn
    /\ UNCHANGED <<RATE_LIMITED, log, cookieVars, extractVars>>

NextRerun ==
    \/ NewScraper
    \/ NextSession

SpecRerun == InitSession /\ [][NextRerun]_vars

\* --------------------------------------------- close(), step by step
\* The scrape call with close() taken apart: context.cookies(), the
\* acquire of COOKIE_WRITE_LOCK, open(file, "w"), the writes of json.dump,
\* the close of the file with the release of the lock, then _shutdown and
\* the rest of _run_session.  No response arrives in these runs.

\* close() starts: cookies = self._ctx.cookies() (line 357).  If it raises,
\* line 361 catches the error and nothing is saved: _shutdown and the rest
\* of _run_session follow.  Nothing of scrape()'s frame is left.
CloseBegin(t, ok) ==
    /\ tasks[t].pc = "scraped"
    /\ IF ok
       THEN /\ tasks' = [tasks EXCEPT ![t].pc = "lock_wait", ![t].scroll_n = 0]
            /\ UNCHANGED <<stats, health, all_batches, all_profiles>>
       ELSE RecordAndReturn(t)
    /\ UNCHANGED <<q, total_loaded, RATE_LIMITED, opc, n_proxies, limit, merged, ret, log, cookieVars, extractVars>>

\* with COOKIE_WRITE_LOCK (line 358)
LockAcquire(t) ==
    /\ tasks[t].pc = "lock_wait"
    /\ LockFree(cookie_lock)
    /\ cookie_lock' = t
    /\ tasks' = [tasks EXCEPT ![t].pc = "locked"]
    /\ UNCHANGED <<poolVars, health, RATE_LIMITED, orchVars, cookie_file, extractVars>>

\* open(self.cfg.cookies_file, "w") (line 359); if it raises, the with
\* statement releases the lock, line 361 catches the error and nothing is
\* saved: _shutdown and the rest of _run_session follow.
FileOpen(t, ok) ==
    /\ tasks[t].pc = "locked"
    /\ IF ok
       THEN /\ cookie_file' = OpenW(cookie_file)
            /\ tasks' = [tasks EXCEPT ![t].pc = "dumping", ![t].wpos = 1]
            /\ UNCHANGED <<cookie_lock, stats, health, all_batches, all_profiles>>
       ELSE /\ cookie_lock' = Unlocked
            /\ RecordAndReturn(t)
            /\ UNCHANGED cookie_file
    /\ UNCHANGED <<q, total_loaded, RATE_LIMITED, opc, n_proxies, limit, merged, ret, log, extractVars>>

\* json.dump (line 360): the next chunk reaches the file.
FileWrite(t) ==
    /\ tasks[t].pc = "dumping"
    /\ tasks[t].wpos <= CookieChunks
    /\ cookie_file' = WriteAt(cookie_file, tasks[t].wpos, CookieSnapshot(t)[tasks[t].wpos])
    /\ tasks' = [tasks EXCEPT ![t].wpos = @ + 1]
    /\ UNCHANGED <<poolVars, health, RATE_LIMITED, orchVars, cookie_lock, extractVars>>

\* The two with statements end: the file is closed, the lock released.
FileCloseRelease(t) ==
    /\ tasks[t].pc = "dumping"
    /\ tasks[t].wpos > CookieChunks
    /\ cookie_lock' = Unlocked
    /\ tasks' = [tasks EXCEPT ![t].pc = "saved", ![t].wpos = 0]
    /\ UNCHANGED <<poolVars, health, RATE_LIMITED, orchVars, cookie_file, extractVars>>

\* _save_cookies has saved the cookies: _shutdown (line 466) and the rest
\* of _run_session (lines 750-752).
CloseEnd(t) ==
    /\ tasks[t].pc = "saved"
    /\ RecordAndReturn(t)
    /\ UNCHANGED <<q, total_loaded, RATE_LIMITED, opc, n_proxies, limit, merged, ret, log, cookieVars, extractVars>>

NextClose ==
    \/ ScrapeBegin
    \/ \E t \in Tasks : RunSessionCheckout(t)
    \/ \E t \in Tasks, ok \in BOOLEAN : SessionOpen(t, ok)
    \/ \E t \in Tasks : ScrapeEnter(t)
    \/ \E t \in Tasks : StaggerEnd(t)
    \/ \E t \in Tasks, raises \in BOOLEAN : NavigateEnd(t, raises)
    \/ \E t \in Tasks, raises \in BOOLEAN : ScrollEnd(t, raises)
    \/ \E t \in Tasks, ok \in BOOLEAN : CloseBegin(t, ok)
    \/ \E t \in Tasks : LockAcquire(t)
    \/ \E t \in Tasks, ok \in BOOLEAN : FileOpen(t, ok)
    \/ \E t \in Tasks : FileWrite(t)
    \/ \E t \in Tasks : FileCloseRelease(t)
    \/ \E t \in Tasks : CloseEnd(t)
    \/ \E lim \in 0..MaxLimit : Finalize(lim)

SpecClose == Init /\ [][NextClose]_vars

\* ------------------------------------------- the extraction, on any payload
\* _extract_tweets applied to one decoded body.  The bodies are built from
\* an innermost node (a candidate with any identifier, any legacy value,
\* any references; or no candidate at all) and up to MaxNesting wrappers.

\* A dict from its items, in order.
JObj(items) ==
    JDict([i \in 1..Len(items) |-> items[i][1]], [i \in 1..Len(items) |-> items[i][2]])

\* A key the body does not carry.
Absent == JValue("absent", <<>>, 0, <<>>, <<>>)

Item(key, v) == IF v = Absent THEN <<>> ELSE <<<<key, v>>>>

IdValues ==
    {JStr(<<>>), JStr(<<"1">>), JStr(<<"2">>), JStr(<<"1", "a">>),
     JStr(<<"h", "t", "t", "p">>), JNum(7), JNum(0), JNull}

TextValues ==
    {JStr(<<>>), JStr(<<" ">>), JStr(<<"a">>), JStr(<<" ", "a", " ">>),
     JStr(<<"&", "a", "m", "p", ";">>), JNull, JNum(5)}

TextA == JStr(<<"a">>)

LegacyValues ==
    {JNull, JList(<<>>), JObj(<<>>),
     JObj(<<<<"text", TextA>>>>),
     JObj(<<<<"full_text", JStr(<<>>)>>, <<"text", TextA>>>>)}
    \cup {JObj(<<<<"full_text", tv>>>>) : tv \in TextValues}

\* A post at its simplest: identifier and text.
PlainPost(id) == JObj(<<<<"rest_id", JStr(id)>>, <<"legacy", JObj(<<<<"full_text", TextA>>>>)>>>>)

Innermost ==
    {JObj(<<<<"rest_id", id>>, <<"legacy", JObj(<<<<"full_text", TextA>>>>)>>>>) : id \in IdValues}
    \cup {JObj(<<<<"rest_id", JStr(<<"1">>)>>, <<"legacy", lv>>>>) : lv \in LegacyValues}
    \cup {JObj(<<<<"rest_id", JStr(<<"1">>)>>,
                 <<"legacy", JObj(<<<<"full_text", TextA>>>>
                                  \o Item("retweeted_status_result", rt)
                                  \o Item("in_reply_to_status_id_str", rp))>>>>
                \o Item("quoted_status_result", qt)) :
             rt \in {Absent, JNull, JObj(<<>>)},
             rp \in {Absent, JStr(<<>>), JStr(<<"9">>)},
             qt \in {Absent, JNull, JObj(<<>>)}}
    \cup {JNull, JStr(<<"1">>), JObj(<<<<"rest_id", JStr(<<"1">>)>>>>),
          JObj(<<<<"legacy", JObj(<<<<"full_text", TextA>>>>)>>>>)}

\* The nodes a node c is found in: lists, dicts that are no candidates,
\* rejected candidates, a candidate that makes the walk raise, an accepted
\* post that reposts c.
Wrappers(c) ==
    {JList(<<PlainPost(<<"1">>), c>>),
     JList(<<c, PlainPost(<<"1">>)>>),
     JObj(<<<<"result", c>>>>),
     JObj(<<<<"rest_id", JStr(<<"1", "a">>)>>,
            <<"legacy", JObj(<<<<"full_text", TextA>>>>)>>,
            <<"quoted_status_result", c>>>>),
     JObj(<<<<"rest_id", JStr(<<"1">>)>>,
            <<"legacy", JObj(<<<<"full_text", JStr(<<" ">>)>>>>)>>,
            <<"card", c>>>>),
     JObj(<<<<"rest_id", JStr(<<"2">>)>>, <<"quoted_status_result", c>>>>),
     JObj(<<<<"rest_id", JStr(<<"1", "a">>)>>,
            <<"legacy", JObj(<<<<"full_text", JNull>>>>)>>,
            <<"quoted_status_result", c>>>>),
     JObj(<<<<"rest_id", JStr(<<"2">>)>>,
            <<"legacy", JObj(<<<<"full_text", TextA>>,
                              <<"retweeted_status_result", JObj(<<<<"result", c>>>>)>>>>)>>>>)}

RECURSIVE Payloads(_)
Payloads(depth) ==
    IF depth = 0 THEN Innermost
    ELSE LET inner == Payloads(depth - 1)
         IN  inner \cup UNION {Wrappers(c) : c \in inner}

InitExtract ==
    \E data \in Payloads(MaxNesting) :
        /\ payload = data
        /\ extracted = NotExtracted
        /\ cookie_file = LoginCookies
        /\ cookie_lock = Unlocked
        /\ q = <<>>
        /\ stats = LoadStats(<<>>)
        /\ total_loaded = 0
        /\ health = HealthInit
        /\ RATE_LIMITED = FALSE
        /\ opc = "idle"
        /\ n_proxies = 0
        /\ limit = 0
        /\ tasks = [t \in Tasks |-> NewTask]
        /\ all_batches = <<>>
        /\ all_profiles = <<>>
        /\ merged = <<>>
        /\ ret = EmptyPoolReturn
        /\ log = "none"

\* _extract_tweets(data) is called and returns or raises.
Extract ==
    /\ extracted = NotExtracted
    /\ extracted' = ExtractTweets(payload)
    /\ UNCHANGED <<poolVars, health, RATE_LIMITED, orchVars, tasks, cookieVars, payload>>

NextExtract == Extract

SpecExtract == InitExtract /\ [][NextExtract]_vars

\* ------------------------------------------------- the pool, used by callers
\* ProxyQueue under concurrent callers, each calling checkout() and then, if
\* it got an endpoint, record(); the file is any list _load accepts.

InitPool ==
    \E data \in ProxyFiles :
        /\ cookie_file = LoginCookies
        /\ q = LoadQueue(data)
        /\ stats = LoadStats(data)
        /\ total_loaded = Len(LoadQueue(data))
        /\ health = HealthInit
        /\ RATE_LIMITED = FALSE
        /\ opc = "idle"
        /\ n_proxies = 0
        /\ limit = 0
        /\ tasks = [t \in Tasks |-> [NewTask EXCEPT !.pc = "pending"]]
        /\ all_batches = <<>>
        /\ all_profiles = <<>>
        /\ merged = <<>>
        /\ ret = EmptyPoolReturn
        /\ log = "none"
        /\ cookie_lock = Unlocked
        /\ payload = JNull
        /\ extracted = NotExtracted

\* checkout() by caller t (lines 169-173)
PoolCheckout(t) ==
    /\ tasks[t].pc = "pending"
    /\ q' = CheckoutRest(q)
    /\ IF CheckoutResult(q) = None
       THEN tasks' = [tasks EXCEPT ![t].pc = "done"]
       ELSE tasks' = [tasks EXCEPT ![t].pc = "created", ![t].proxy = CheckoutResult(q),
                                   ![t].slot = QueueSlot(q, total_loaded)]
    /\ UNCHANGED <<stats, total_loaded, health, RATE_LIMITED, orchVars, cookieVars, extractVars>>

\* record() by caller t for the endpoint it checked out (lines 175-180)
PoolRecord(t, success, n) ==
    /\ tasks[t].pc = "created"
    /\ stats' = Record(stats, tasks[t].proxy, success, n, Elapsed)
    /\ tasks' = [tasks EXCEPT ![t].pc = "done", ![t].rec = <<[success |-> success, tweets |-> n]>>]
    /\ UNCHANGED <<q, total_loaded, health, RATE_LIMITED, orchVars, cookieVars, extractVars>>

NextPool ==
    \/ \E t \in Tasks : PoolCheckout(t)
    \/ \E t \in Tasks, success \in BOOLEAN, n \in 0..1 : PoolRecord(t, success, n)

SpecPool == InitPool /\ [][NextPool]_vars

\* ------------------------------------------------ the merge, on any buffers
\* _parallel_scrape from the point where every task has returned, for any
\* buffers the sessions may have returned, in any completion order.

MergeTimeline == Timeline \cup {[id |-> "1003", created_at |-> <<>>]}

\* The buffer session t returns when its responses carried the posts tws.
BufferOf(tws, t) == [k \in 1..Len(tws) |-> Post(tws[k], t, k)]

RECURSIVE StatsAfter(_, _, _)
StatsAfter(st, batches, t) ==
    IF t > Len(batches) THEN st
    ELSE StatsAfter(Record(st, ProxyUrls[t], TRUE, Len(batches[t]), Elapsed), batches, t + 1)

RECURSIVE HealthAfter(_, _, _)
HealthAfter(h, batches, t) ==
    IF t > Len(batches) THEN h
    ELSE HealthAfter(HealthRecord(h, TRUE, Len(batches[t]), Elapsed), batches, t + 1)

InitMerge ==
    \E raw \in SeqsUpTo(SeqsUpTo(MergeTimeline, MaxBatchLen), MaxBatches) :
        LET batches == [t \in 1..Len(raw) |-> BufferOf(raw[t], t)]
            data == [t \in 1..Len(raw) |-> ProxyUrls[t]]
        IN  /\ Len(raw) >= 1
            /\ q = <<>>
            /\ stats = StatsAfter(LoadStats(data), batches, 1)
            /\ total_loaded = Len(raw)
            /\ health = HealthAfter(HealthInit, batches, 1)
            /\ RATE_LIMITED = FALSE
            /\ opc = "running"
            /\ n_proxies = Len(raw)
            /\ limit = 0
            /\ tasks = [t \in Tasks |->
                          IF t <= Len(raw)
                          THEN Returned([NewTask EXCEPT !.proxy = ProxyUrls[t], !.slot = t,
                                                        !.opened = TRUE],
                                        ScrapedOutcome(batches[t]), batches[t], <<>>)
                          ELSE NewTask]
            /\ all_batches = batches
            /\ all_profiles = <<>>
            /\ merged = <<>>
            /\ ret = EmptyPoolReturn
            /\ log = "none"
            /\ cookie_file = SaveCookies(LoginCookies, CookieSnapshot(Len(raw)))
            /\ cookie_lock = Unlocked
            /\ payload = JNull
            /\ extracted = NotExtracted

NextMerge == \E lim \in 0..MaxLimit : Finalize(lim)

SpecMerge == InitMerge /\ [][NextMerge]_vars

\* --------------------------------------- on_response, on any response
\* The one session of a scrape call with on_response taken from the
\* response itself: its status, its URL and its body.  A URL is the set of
\* the words of interest it contains ("pat in resp.url" is membership); a
\* body is the value resp.json() returns, or NotJson when json() raises.

INTERCEPT_PATTERNS ==
    {"SearchTimeline", "UserTweets", "UserTweetsAndReplies", "TweetDetail",
     "HomeTimeline", "HomeLatestTimeline", "Likes", "Bookmarks",
     "ListLatestTweetsTimeline", "graphql"}

USER_PROFILE_PATTERNS == {"UserByScreenName", "UserByRestId"}

\* resp.status == 429 and ("twitter.com" in resp.url or "x.com" in resp.url)
TargetHosts == {"twitter.com", "x.com"}

\* A routing that tries the timeline patterns before the profile patterns.
Route_TimelineFirst(r) ==
    IF r.status = 429 /\ TargetHosts \cap r.url # {} THEN "rate"
    ELSE IF INTERCEPT_PATTERNS \cap r.url # {} THEN "timeline"
    ELSE IF USER_PROFILE_PATTERNS \cap r.url # {} THEN "profile"
    ELSE "ignored"

\* The branch of on_response a response is handled by (lines 367, 374, 389):
\* each of the first two ends in a return.
Route(r) ==
    IF r.status = 429 /\ TargetHosts \cap r.url # {} THEN "rate"
    ELSE IF USER_PROFILE_PATTERNS \cap r.url # {} THEN "profile"
    ELSE IF INTERCEPT_PATTERNS \cap r.url = {} THEN "ignored"
    ELSE "timeline"

\* A body resp.json() cannot decode.
NotJson == JValue("notjson", <<>>, 0, <<>>, <<>>)

\* _extract_user_profile (lines 669-706): the profile found, none, or the
\* exception of leg.get on a legacy that is no dict.  Of the profile the
\* model follows the followers.
RECURSIVE ProfileWalk(_)
RECURSIVE ProfileWalkValues(_)
ProfileWalk(obj) ==
    IF obj.type = "dict"
    THEN LET leg == GetOr(obj, "legacy", JDict(<<>>, <<>>))
         IN  IF leg.type # "dict" THEN [exc |-> TRUE, found |-> <<>>]
             ELSE IF Truthy(GetOr(leg, "screen_name", JNull))
                     /\ ~Truthy(GetOr(leg, "full_text", JNull))
             THEN [exc |-> FALSE,
                   found |-> <<[followers |-> GetOr(leg, "followers_count", JNum(0)).n]>>]
             ELSE ProfileWalkValues(obj.vals)
    ELSE IF obj.type = "list" THEN ProfileWalkValues(obj.vals)
    ELSE [exc |-> FALSE, found |-> <<>>]

ProfileWalkValues(values) ==
    IF values = <<>> THEN [exc |-> FALSE, found |-> <<>>]
    ELSE LET r == ProfileWalk(Head(values))
         IN  IF r.exc \/ r.found # <<>> THEN r ELSE ProfileWalkValues(Tail(values))

ExtractUserProfile(data) == ProfileWalk(data)

\* The loop over data.get("errors", []) (lines 393-399): "rate" when an
\* error has code 88, "raise" when the value cannot be iterated or an item
\* has no get, else "none".
RECURSIVE ErrorItems(_)
ErrorItems(items) ==
    IF items = <<>> THEN "none"
    ELSE IF Head(items).type # "dict" THEN "raise"
    ELSE IF GetOr(Head(items), "code", JNum(0)) = JNum(88) THEN "rate"
    ELSE ErrorItems(Tail(items))

ErrorScan(data) ==
    IF data.type # "dict" THEN "none"
    ELSE LET errs == GetOr(data, "errors", JList(<<>>))
         IN  CASE errs.type = "list" -> ErrorItems(errs.vals)
               [] errs.type = "dict" -> IF errs.keys = <<>> THEN "none" ELSE "raise"
               [] errs.type = "str"  -> IF errs.s = <<>> THEN "none" ELSE "raise"
               [] OTHER              -> "raise"

\* An interceptor that appends each post as the walk finds it.
Appended_Partial(st) == st.tweets

\* for tweet in _extract_tweets(data): self._bucket.append(tweet) (lines
\* 400-401): the list is built before the first append, so a walk that
\* raises appends nothing.
Appended(st) == IF st.exc THEN <<>> ELSE st.tweets

\* The post on_response appends for a dict of _extract_tweets: id and
\* created_at, as the sessions' buffers hold them.
AsPost(tw) == [id |-> tw.id, created_at |-> tw.created_at.s]

NoEffect == [kind |-> "none", tweet |-> <<>>, followers |-> 0]

\* What on_response makes of a response (lines 365-403): a rate-limit
\* response, a body with error 88, the posts to append, the profile found,
\* or nothing (no pattern matched, nothing found, or an exception swallowed
\* at lines 385 or 402).
Observed(r) ==
    CASE Route(r) = "rate" -> [NoEffect EXCEPT !.kind = "r429"]
      [] Route(r) = "ignored" -> NoEffect
      [] Route(r) = "profile" ->
            IF r.body = NotJson THEN NoEffect
            ELSE LET p == ExtractUserProfile(r.body)
                 IN  IF p.exc \/ p.found = <<>> THEN NoEffect
                     ELSE [NoEffect EXCEPT !.kind = "profile",
                                           !.followers = p.found[1].followers]
      [] OTHER ->
            IF r.body = NotJson \/ ErrorScan(r.body) = "raise" THEN NoEffect
            ELSE IF ErrorScan(r.body) = "rate" THEN [NoEffect EXCEPT !.kind = "err88"]
            ELSE LET st == Walk(r.body, [tweets |-> <<>>, seen |-> {}, exc |-> FALSE])
                     found == Appended(st)
                 IN  [NoEffect EXCEPT !.kind = "timeline",
                                      !.tweet = [i \in 1..Len(found) |-> AsPost(found[i])]]

\* The URLs: a timeline endpoint, a profile endpoint (its path holds
\* "graphql" too), a page of the target that is no endpoint, a timeline
\* endpoint of another host.
Urls ==
    {{"x.com", "graphql", "UserTweets"},
     {"x.com", "graphql", "UserByScreenName"},
     {"x.com", "settings"},
     {"cdn.example", "graphql"}}

\* A user object as the profile endpoint returns it.
UserObject(n) ==
    JObj(<<<<"rest_id", JStr(<<"9">>)>>,
           <<"legacy", JObj(<<<<"screen_name", JStr(<<"u">>)>>,
                             <<"followers_count", JNum(n)>>>>)>>>>)

\* The bodies: not JSON; posts; a post followed by a candidate that makes
\* the walk raise; errors with code 88, without, and not a list of dicts,
\* each beside a post; a user beside a post; a legacy that is no dict.
Bodies ==
    {NotJson,
     JList(<<PlainPost(<<"1">>)>>),
     JList(<<PlainPost(<<"2">>),
             JObj(<<<<"rest_id", JNum(7)>>, <<"legacy", JObj(<<<<"full_text", TextA>>>>)>>>>)>>),
     JObj(<<<<"errors", JList(<<JObj(<<<<"code", JNum(88)>>>>)>>)>>,
            <<"data", PlainPost(<<"1">>)>>>>),
     JObj(<<<<"errors", JList(<<JObj(<<<<"code", JNum(1)>>>>)>>)>>,
            <<"data", PlainPost(<<"1">>)>>>>),
     JObj(<<<<"errors", JStr(<<"x">>)>>, <<"data", PlainPost(<<"1">>)>>>>),
     JObj(<<<<"legacy", JNull>>>>)}
    \cup {JList(<<PlainPost(<<"1">>), UserObject(n)>>) : n \in Followers}

FullResponses == [status : {200, 429}, url : Urls, body : Bodies]

\* on_response for the next response the page delivers; handled is the
\* responses delivered to this session so far.
InterceptBody(t, r) ==
    /\ tasks[t].pc \in {"navigating", "scrolling"}
    /\ tasks[t].interceptor
    /\ ~tasks[t].setting
    /\ Len(tasks[t].handled) < MaxIntercepted
    /\ tasks' = [tasks EXCEPT ![t] = [InterceptedBy(tasks[t], Observed(r), t)
                                         EXCEPT !.handled = Append(@, r)]]
    /\ UNCHANGED <<poolVars, health, RATE_LIMITED, orchVars, cookieVars, extractVars>>

NextIntercept ==
    \/ \E lim \in 0..MaxLimit : ScrapeEmptyPool(lim)
    \/ ScrapeBegin
    \/ \E t \in Tasks : RunSessionCheckout(t)
    \/ \E t \in Tasks, ok \in BOOLEAN : SessionOpen(t, ok)
    \/ \E t \in Tasks : ScrapeEnter(t)
    \/ \E t \in Tasks : StaggerEnd(t)
    \/ \E t \in Tasks, r \in FullResponses : InterceptBody(t, r)
    \/ \E t \in Tasks : RateLimitedSet(t)
    \/ \E t \in Tasks, raises \in BOOLEAN : NavigateEnd(t, raises)
    \/ \E t \in Tasks, raises \in BOOLEAN : ScrollEnd(t, raises)
    \/ \E t \in Tasks, saved \in BOOLEAN : SessionFinish(t, saved)
    \/ \E lim \in 0..MaxLimit : Finalize(lim)

SpecIntercept == InitSession /\ [][NextIntercept]_vars

\* --------------------------------------------------- open(), step by step
\* The one session of a scrape call with open() taken apart into its calls;
\* the page produces responses while it loads and scrolls, and a response
\* reaches on_response if the handler is registered on the page.

\* An open() that loads the cookies before it registers the handler.
OpenOrder_CookiesFirst == <<"launch", "load_cookies", "attach_interceptor">>

\* The calls of open() in their order (lines 410-412).
OpenOrder == <<"launch", "attach_interceptor", "load_cookies">>

\* The next call of open() returns (ok) or, for _launch and _load_cookies,
\* fails: _launch raises (line 418) or _load_cookies returns False (line
\* 412); after the last call open() returns True (line 417).
OpenStep(t, ok) ==
    LET k == tasks[t].ostep + 1
        call == OpenOrder[k]
        after == CASE call = "launch" -> Launch(tasks[t])
                   [] call = "attach_interceptor" -> AttachInterceptor(tasks[t])
                   [] OTHER -> tasks[t]
    IN  /\ tasks[t].pc \in {"created", "opening"}
        /\ call = "attach_interceptor" => ok
        /\ (call = "load_cookies" /\ ok) => CanOpen(cookie_file)
        /\ IF ok
           THEN /\ tasks' = [tasks EXCEPT ![t] =
                                IF k = Len(OpenOrder)
                                THEN [after EXCEPT !.pc = "opened", !.opened = TRUE, !.ostep = 0]
                                ELSE [after EXCEPT !.pc = "opening", !.ostep = k]]
                /\ UNCHANGED <<stats, health, all_batches, all_profiles>>
           ELSE OpenFailedReturn(t)
        /\ UNCHANGED <<q, total_loaded, RATE_LIMITED, opc, n_proxies, limit, merged, ret, log, cookieVars, extractVars>>

\* The page receives a response while it loads or scrolls: on_response
\* handles it if it is registered, else nobody sees it.
PageResponse(t, r) ==
    /\ tasks[t].pc \in {"navigating", "scrolling"}
    /\ ~tasks[t].setting
    /\ tasks[t].nresp < MaxSessionResponses
    /\ tasks' = [tasks EXCEPT ![t] = IF tasks[t].interceptor
                                     THEN InterceptedBy(@, r, t)
                                     ELSE [@ EXCEPT !.nresp = @ + 1]]
    /\ UNCHANGED <<poolVars, health, RATE_LIMITED, orchVars, cookieVars, extractVars>>

NextOpen ==
    \/ \E lim \in 0..MaxLimit : ScrapeEmptyPool(lim)
    \/ ScrapeBegin
    \/ \E t \in Tasks : RunSessionCheckout(t)
    \/ \E t \in Tasks, ok \in BOOLEAN : OpenStep(t, ok)
    \/ \E t \in Tasks : ScrapeEnter(t)
    \/ \E t \in Tasks : StaggerEnd(t)
    \/ \E t \in Tasks, r \in Responses : PageResponse(t, r)
    \/ \E t \in Tasks : RateLimitedSet(t)
    \/ \E t \in Tasks, raises \in BOOLEAN : NavigateEnd(t, raises)
    \/ \E t \in Tasks, raises \in BOOLEAN : ScrollEnd(t, raises)
    \/ \E t \in Tasks, saved \in BOOLEAN : SessionFinish(t, saved)
    \/ \E lim \in 0..MaxLimit : Finalize(lim)

SpecOpen == InitSession /\ [][NextOpen]_vars

\* ------------------------------------------------- the author of a post
\* _find_user applied to one candidate object.

\* The known paths of lines 491-520, each a chain of .get(key, {}).
KnownPaths ==
    <<<<"core", "user_results", "result", "legacy">>,
      <<"tweet", "core", "user_results", "result", "legacy">>,
      <<"user_results", "result", "legacy">>,
      <<"core", "user_results", "result", "core", "legacy">>,
      <<"user", "legacy">>>>

\* The value a chain of .get(key, {}) ends with; a value on the way that is
\* no dict has no get, and the chain raises.
PathRaised == JValue("raise", <<>>, 0, <<>>, <<>>)

RECURSIVE GetPath(_, _)
GetPath(v, keys) ==
    IF v.type # "dict" THEN PathRaised
    ELSE IF keys = <<>> THEN v
    ELSE IF ~HasKey(v, Head(keys)) THEN GetPath(JDict(<<>>, <<>>), Tail(keys))
    ELSE IF Tail(keys) = <<>> THEN GetOr(v, Head(keys), JNull)
    ELSE GetPath(GetOr(v, Head(keys), JNull), Tail(keys))

\* A search without a cap.
DepthExceeded_Never(depth) == FALSE

\* if depth > 6: return None (lines 532-533)
DepthExceeded(depth) == depth > 6

\* if node.get("screen_name") and node.get("name") and not node.get("full_text")
LooksLikeUser(node) ==
    /\ Truthy(GetOr(node, "screen_name", JNull))
    /\ Truthy(GetOr(node, "name", JNull))
    /\ ~Truthy(GetOr(node, "full_text", JNull))

\* _deep_find (lines 531-546): <<>> for None, else the dict found.
RECURSIVE DeepFind(_, _)
RECURSIVE DeepFindValues(_, _)
DeepFind(node, depth) ==
    IF DepthExceeded(depth) THEN <<>>
    ELSE IF node.type = "dict"
    THEN IF LooksLikeUser(node) THEN <<node>> ELSE DeepFindValues(node.vals, depth + 1)
    ELSE IF node.type = "list" THEN DeepFindValues(node.vals, depth + 1)
    ELSE <<>>

DeepFindValues(values, depth) ==
    IF values = <<>> THEN <<>>
    ELSE LET result == DeepFind(Head(values), depth)
         IN  IF result # <<>> THEN result ELSE DeepFindValues(Tail(values), depth)

\* The first candidate of the known paths that is a dict with a handle.
RECURSIVE FirstKnown(_, _)
FirstKnown(obj, paths) ==
    IF paths = <<>> THEN <<>>
    ELSE LET c == GetPath(obj, Head(paths))
         IN  IF c.type = "dict" /\ Truthy(GetOr(c, "screen_name", JNull))
             THEN <<c>>
             ELSE FirstKnown(obj, Tail(paths))

\* _find_user (lines 483-547): the dict returned, or the exception of a
\* known path (the list of candidates is built before any is tested).
FindUser(obj) ==
    IF \E i \in 1..Len(KnownPaths) : GetPath(obj, KnownPaths[i]) = PathRaised
    THEN [exc |-> "Exception", user |-> JDict(<<>>, <<>>)]
    ELSE IF FirstKnown(obj, KnownPaths) # <<>>
    THEN [exc |-> "None", user |-> FirstKnown(obj, KnownPaths)[1]]
    ELSE IF DeepFind(obj, 0) # <<>>
    THEN [exc |-> "None", user |-> DeepFind(obj, 0)[1]]
    ELSE [exc |-> "None", user |-> JDict(<<>>, <<>>)]

\* The objects a search may meet: with handle and display name, without
\* one of them, and with a full text beside them.
UserLike ==
    {JObj(<<<<"screen_name", JStr(<<"u">>)>>, <<"name", JStr(<<"n">>)>>>>),
     JObj(<<<<"screen_name", JStr(<<"u">>)>>>>),
     JObj(<<<<"name", JStr(<<"n">>)>>>>),
     JObj(<<<<"screen_name", JStr(<<>>)>>, <<"name", JStr(<<"n">>)>>>>),
     JObj(<<<<"screen_name", JStr(<<"u">>)>>, <<"name", JStr(<<"n">>)>>,
            <<"full_text", TextA>>>>),
     JObj(<<<<"screen_name", JStr(<<"v">>)>>, <<"name", JStr(<<"n">>)>>>>)}

\* u under k levels of dicts (or of lists).
RECURSIVE Nest(_, _, _)
Nest(k, u, kind) ==
    IF k = 0 THEN u
    ELSE IF kind = "dict" THEN JObj(<<<<"a", Nest(k - 1, u, kind)>>>>)
    ELSE JList(<<Nest(k - 1, u, kind)>>)

\* The author a known path leads to, if the post has one.
KnownAuthors ==
    {Absent, JNull,
     JObj(<<<<"user_results",
              JObj(<<<<"result",
                       JObj(<<<<"legacy", JObj(<<<<"screen_name", JStr(<<"k">>)>>>>)>>>>)>>>>)>>>>),
     JObj(<<<<"user_results", JObj(<<<<"result", JObj(<<>>)>>>>)>>>>)}

\* The candidates: a post with, in this order, an optional "core", and
\* two values that hold an object each, k and j levels below the post.
AuthorPayloads ==
    {JObj(<<<<"rest_id", JStr(<<"1">>)>>, <<"legacy", JObj(<<<<"full_text", TextA>>>>)>>>>
          \o Item("core", core)
          \o <<<<"x", Nest(k - 1, u, kind)>>, <<"y", Nest(j - 1, w, kind)>>>>) :
        core \in KnownAuthors, k \in 1..MaxUserDepth, j \in {MaxUserDepth - 2},
        u \in UserLike, w \in {JObj(<<<<"screen_name", JStr(<<"w">>)>>, <<"name", JStr(<<"n">>)>>>>), JNull},
        kind \in {"dict", "list"}}

NotSearched == [exc |-> "NotCalled", user |-> JDict(<<>>, <<>>)]

InitAuthor ==
    \E data \in AuthorPayloads :
        /\ payload = data
        /\ extracted = NotSearched
        /\ cookie_file = LoginCookies
        /\ cookie_lock = Unlocked
        /\ q = <<>>
        /\ stats = LoadStats(<<>>)
        /\ total_loaded = 0
        /\ health = HealthInit
        /\ RATE_LIMITED = FALSE
        /\ opc = "idle"
        /\ n_proxies = 0
        /\ limit = 0
        /\ tasks = [t \in Tasks |-> NewTask]
        /\ all_batches = <<>>
        /\ all_profiles = <<>>
        /\ merged = <<>>
        /\ ret = EmptyPoolReturn
        /\ log = "none"

\* user = _find_user(obj) (line 578) is called and returns or raises.
FindAuthor ==
    /\ extracted = NotSearched
    /\ extracted' = FindUser(payload)
    /\ UNCHANGED <<poolVars, health, RATE_LIMITED, orchVars, tasks, cookieVars, payload>>

NextAuthor == FindAuthor

SpecAuthor == InitAuthor /\ [][NextAuthor]_vars

\* =================================================================== claims

Min(a, b) == IF a < b THEN a ELSE b

\* Sessions that hold a checked-out proxy and have not returned yet.
LiveSessions == {t \in Tasks : tasks[t].proxy # None /\ tasks[t].pc # "done"}

\* C1: at every moment of a scrape invocation the number of live sessions
\* (proxy checked out, task not yet returned) is at most
\* max_parallel_sessions, however many proxies are available.
C1_LiveSessionsBounded == Cardinality(LiveSessions) <= max_parallel_sessions

\* The pool is saturated while a further proxy's task waits for a worker.
C1_Witness ==
    /\ Cardinality(LiveSessions) = max_parallel_sessions
    /\ \E t \in Tasks : tasks[t].pc = "pending"
    /\ n_proxies > max_parallel_sessions

\* C2: a proxy that was checked out and recorded is never returned by a
\* later checkout() of the same pool, for every list _load accepts.  As a
\* property of steps: no checkout hands out a URL whose outcome is recorded.
C2_ProxyOneShot ==
    [][\A t \in Tasks :
          (tasks[t].pc = "pending" /\ tasks'[t].pc = "created")
              => stats[tasks'[t].proxy].elapsed = 0]_vars

Callers == {t \in Tasks : tasks[t].pc # "pending"}

Served == {t \in Tasks : tasks[t].slot > 0}

\* C3: checkout() is atomic and non-blocking.  Of the callers that have
\* called, exactly min(calls, loaded) hold an endpoint, each a different
\* queue entry; remaining() has dropped by one per endpoint handed out; the
\* others got "empty"; and a caller that has not called yet can always
\* complete its call at once, whatever the other callers do.
C3_CheckoutAtomic ==
    /\ Cardinality(Served) = Min(Cardinality(Callers), total_loaded)
    /\ \A t \in Served : tasks[t].slot \in 1..total_loaded /\ tasks[t].proxy # None
    /\ \A t1, t2 \in Served : t1 # t2 => tasks[t1].slot # tasks[t2].slot
    /\ Remaining(q) = total_loaded - Cardinality(Served)
    /\ \A t \in Callers \ Served : tasks[t].pc = "done" /\ tasks[t].proxy = None
    /\ \A t \in Tasks \ Callers : ENABLED PoolCheckout(t)

\* More callers than endpoints: some were served, the rest got "empty".
C3_Witness ==
    /\ Callers = Tasks
    /\ Served # {}
    /\ Callers \ Served # {}

Done(t) == tasks[t].pc = "done"

OpenFailed(t) == Done(t) /\ tasks[t].proxy # None /\ ~tasks[t].opened

FailedOutcome == [success |-> FALSE, tweets |-> 0]

PostIds(posts) == {posts[i].id : i \in 1..Len(posts)}

\* Every task of the invocation has returned and its buffer was collected
\* and merged.
AllTasksMerged ==
    /\ Len(all_batches) = n_proxies
    /\ \A t \in Tasks :
          IF t <= n_proxies
          THEN /\ Done(t)
               /\ \E i \in 1..Len(all_batches) : all_batches[i] = tasks[t].out_tweets
               /\ PostIds(tasks[t].out_tweets) \subseteq PostIds(merged)
          ELSE tasks[t].pc = "unused"

\* C4, as the claim states it: a task whose open failed or one of whose
\* steps raised returns an empty buffer and no profile and its proxy is
\* recorded with success=false and 0 records, while every other task runs
\* to completion and is merged.
C4_FailureIsolation ==
    /\ \A t \in Tasks :
          (OpenFailed(t) \/ (Done(t) /\ tasks[t].raised)) =>
              /\ tasks[t].out_tweets = <<>>
              /\ tasks[t].out_profile = <<>>
              /\ tasks[t].rec = <<FailedOutcome>>
    /\ (opc = "done" /\ n_proxies > 0) => AllTasksMerged

\* C4, amended: a task never raises into the orchestrator.  If its open
\* fails it returns an empty buffer and no profile and its proxy is recorded
\* with success=false and 0 records.  If a step of scrape() raises after a
\* successful open, scrape() catches the error and the task returns what it
\* buffered, recorded as a success with that record count.  In both cases
\* every other task runs to completion and its buffer is merged.
C4_FailureIsolationAmended ==
    /\ \A t \in Tasks :
          OpenFailed(t) =>
              /\ tasks[t].out_tweets = <<>>
              /\ tasks[t].out_profile = <<>>
              /\ tasks[t].rec = <<FailedOutcome>>
              /\ stats[tasks[t].proxy] = [success |-> FALSE, tweets |-> 0, elapsed |-> Elapsed]
    /\ \A t \in Tasks :
          (Done(t) /\ tasks[t].raised) =>
              /\ tasks[t].opened
              /\ tasks[t].rec = <<[success |-> TRUE, tweets |-> Len(tasks[t].out_tweets)]>>
              /\ stats[tasks[t].proxy].success
    /\ \A t \in Tasks :
          (tasks[t].pc = "scraped" /\ tasks[t].raised) => tasks[t].opened
    /\ (opc = "done" /\ n_proxies > 0) => AllTasksMerged

\* One open failed, one scrape raised after buffering a post, one session
\* ran normally, and the run ended with the two buffers merged.
C4_Witness ==
    /\ opc = "done"
    /\ \E t \in Tasks : OpenFailed(t)
    /\ \E t \in Tasks : Done(t) /\ tasks[t].raised /\ tasks[t].out_tweets # <<>>
    /\ \E t \in Tasks : Done(t) /\ tasks[t].opened /\ ~tasks[t].raised /\ tasks[t].out_tweets # <<>>
    /\ merged # <<>>

\* Position (b, k) of all_batches comes before position (b2, k2) in the
\* order the merge scans.
ScannedBefore(b, k, b2, k2) == b < b2 \/ (b = b2 /\ k < k2)

BatchPositions == {bk \in (1..Len(all_batches)) \X (1..MaxBatchLen + 1) : bk[2] <= Len(all_batches[bk[1]])}

\* C5: the result holds no two posts with the same identifier; of the
\* copies of an identifier in the buffers exactly one is kept by the merge,
\* the first in task-completion order and, within a buffer, append order.
C5_MergeDedup ==
    opc = "done" =>
        /\ \A i, j \in 1..Len(ret.tweets) : i # j => ret.tweets[i].id # ret.tweets[j].id
        /\ \A i, j \in 1..Len(merged) : i # j => merged[i].id # merged[j].id
        /\ \A bk \in BatchPositions :
              \E i \in 1..Len(merged) : merged[i].id = all_batches[bk[1]][bk[2]].id
        /\ \A i \in 1..Len(merged) :
              \E bk \in BatchPositions :
                  /\ all_batches[bk[1]][bk[2]] = merged[i]
                  /\ \A bk2 \in BatchPositions :
                        ScannedBefore(bk2[1], bk2[2], bk[1], bk[2])
                            => all_batches[bk2[1]][bk2[2]].id # merged[i].id
        /\ \A i \in 1..Len(ret.tweets) : \E j \in 1..Len(merged) : ret.tweets[i] = merged[j]

\* Two buffers hold the same identifier, captured at different times, and
\* the result holds it.
C5_Witness ==
    /\ opc = "done"
    /\ \E bk, bk2 \in BatchPositions :
          /\ bk[1] < bk2[1]
          /\ all_batches[bk[1]][bk[2]].id = all_batches[bk2[1]][bk2[2]].id
          /\ all_batches[bk[1]][bk[2]].cap # all_batches[bk2[1]][bk2[2]].cap
          /\ \E i \in 1..Len(ret.tweets) : ret.tweets[i].id = all_batches[bk[1]][bk[2]].id

\* C6: the posts returned are in descending lexicographic order of
\* created_at, whatever order the sessions completed in.
C6_SortedDescending ==
    opc = "done" =>
        \A i \in 1..(Len(ret.tweets) - 1) :
            ~LexLess(ret.tweets[i].created_at, ret.tweets[i + 1].created_at)

\* The first buffer holds the older post before the newer one and the
\* result has the newer one first.
C6_Witness ==
    /\ opc = "done"
    /\ Len(all_batches[1]) >= 2
    /\ LexLess(all_batches[1][1].created_at, all_batches[1][2].created_at)
    /\ Len(ret.tweets) >= 2
    /\ ret.tweets[1] = all_batches[1][2]
    /\ ret.tweets[2] = all_batches[1][1]

\* C7: for every limit >= 0 the result has at most limit posts and is the
\* first limit elements of the deduplicated, sorted merge of all buffers.
C7_Truncation ==
    opc = "done" =>
        /\ Len(ret.tweets) <= limit
        /\ Len(ret.tweets) = Min(limit, Len(merged))
        /\ \A i \in 1..Len(ret.tweets) : ret.tweets[i] = merged[i]
        /\ \A bk \in BatchPositions : all_batches[bk[1]][bk[2]].id \in PostIds(merged)
        /\ \A i, j \in 1..Len(merged) : i # j => merged[i].id # merged[j].id
        /\ \A i \in 1..(Len(merged) - 1) : ~LexLess(merged[i].created_at, merged[i + 1].created_at)

\* The merge holds more posts than the limit allows and a post that came
\* late in the buffers is among those returned.
C7_Witness ==
    /\ opc = "done"
    /\ limit >= 1
    /\ Len(merged) > limit
    /\ Len(ret.tweets) = limit
    /\ ret.tweets[1] # all_batches[1][1]

\* C8, as the claim states it: a scrape call on an empty pool fails with a
\* resource-exhaustion error, a hard failure that no successful scrape
\* without posts can be taken for.
C8_EmptyPoolRaises ==
    (opc = "done" /\ n_proxies = 0) =>
        /\ ret.exc = "ExhaustedResourcesError"
        /\ ret # [exc |-> "None", tweets |-> <<>>, profile |-> <<>>]

\* C8, amended: a scrape call on an empty pool logs an error and returns an
\* empty result (no posts, no profile) without raising, the value a scrape
\* that found no posts returns; no session is started, and neither a pool
\* or health statistic nor the rate-limit signal changes.
C8_EmptyPoolReturnsEmpty ==
    [][(opc # "running" /\ Remaining(q) = 0) =>
          /\ opc' = "done"
          /\ n_proxies' = 0
          /\ ret' = [exc |-> "None", tweets |-> <<>>, profile |-> <<>>]
          /\ log' = "error_no_proxies"
          /\ \A t \in Tasks : tasks'[t].pc = "unused"
          /\ UNCHANGED <<q, stats, total_loaded, health, RATE_LIMITED>>]_vars

\* A scrape call found the pool emptied by an earlier invocation, whose
\* statistics and rate-limit signal are still there.
C8_Witness ==
    /\ opc = "done"
    /\ n_proxies = 0
    /\ log = "error_no_proxies"
    /\ health.sessions_run > 0
    /\ RATE_LIMITED

\* Every record of every session's returned buffer is in the merge, and the
\* call returned the truncated merge without raising.
AllRecordsReturned ==
    /\ AllTasksMerged
    /\ ret.exc = "None"
    /\ Len(ret.tweets) = Min(limit, Len(merged))
    /\ \A i \in 1..Len(ret.tweets) : ret.tweets[i] = merged[i]

\* C9, as the claim states it: with the signal set when all tasks have
\* finished, every buffered record is still returned without raising, and
\* what the caller is handed is flagged as partial: it differs from what a
\* full success hands over for the same buffers.
C9_PartialFlagged ==
    (opc = "done" /\ n_proxies > 0 /\ RATE_LIMITED) =>
        /\ AllRecordsReturned
        /\ ret # ReturnValue(merged, all_profiles, limit)

\* C9, amended: with the signal set when all tasks have finished, every
\* buffered record is still returned (deduplicated, sorted, truncated)
\* without raising; the early end is reported by the warning log line only
\* (and the signal stays set), the returned value has the keys and the
\* content a full success has for the same buffers.
C9_PartialSalvage ==
    (opc = "done" /\ n_proxies > 0) =>
        /\ AllRecordsReturned
        /\ DOMAIN ret = {"exc", "tweets", "profile"}
        /\ RATE_LIMITED <=> log = "warning_ended_early"
        /\ ~RATE_LIMITED <=> log = "info_done"

\* A run ended with the signal set and returned a salvaged record.
C9_Witness ==
    /\ opc = "done"
    /\ n_proxies > 0
    /\ RATE_LIMITED
    /\ ret.tweets # <<>>

\* C10: once set during an invocation the signal stays set until every task
\* has finished and the result is out, and a set() on the set signal (a
\* second session's, also one that tested the signal while it was clear)
\* leaves it set.
C10_SignalMonotonic ==
    [][/\ (opc = "running" /\ RATE_LIMITED) => RATE_LIMITED'
       /\ \A t \in Tasks : (tasks[t].setting /\ ~tasks'[t].setting) => RATE_LIMITED']_vars

\* The signal is set while another session, which tested it while it was
\* clear, is about to set it again.
C10_Witness ==
    /\ opc = "running"
    /\ RATE_LIMITED
    /\ \E t \in Tasks : tasks[t].setting

InStep(t) == tasks[t].pc \in {"stagger", "navigating", "scrolling"}

\* Session t starts a stagger wait, a navigation or a scroll step.
StartsStep(t) ==
    \/ tasks[t].pc # "stagger" /\ tasks'[t].pc = "stagger"
    \/ tasks[t].pc # "navigating" /\ tasks'[t].pc = "navigating"
    \/ /\ tasks'[t].pc = "scrolling"
       /\ tasks[t].pc # "scrolling" \/ tasks'[t].scroll_n # tasks[t].scroll_n

\* C11: cooperative cancellation.  While the signal is set no session
\* starts a stagger wait, a navigation or a scroll step (a step starts with
\* its test of the signal); setting the signal moves no session and takes
\* nothing from a buffer; a step in progress while the signal is set can
\* run to its end, and the session then returns from scrape().
C11_CooperativeCancel ==
    [][/\ \A t \in Tasks : RATE_LIMITED => ~StartsStep(t)
       /\ (~RATE_LIMITED /\ RATE_LIMITED') =>
              \A t \in Tasks : /\ tasks'[t].pc = tasks[t].pc
                                /\ tasks'[t].bucket = tasks[t].bucket
       /\ \A t \in Tasks :
              (RATE_LIMITED /\ InStep(t) /\ ~tasks[t].setting) =>
                  /\ tasks[t].pc = "stagger" => ENABLED StaggerEnd(t)
                  /\ tasks[t].pc = "navigating" => ENABLED NavigateEnd(t, FALSE)
                  /\ tasks[t].pc = "scrolling" => ENABLED ScrollEnd(t, FALSE)
                  /\ tasks'[t].pc # tasks[t].pc => tasks'[t].pc = "scraped"]_vars

\* The signal is set while one session is in a scroll step that is not its
\* last and another session has returned from scrape() with nothing.
C11_Witness ==
    /\ RATE_LIMITED
    /\ \E t1, t2 \in Tasks :
          /\ tasks[t1].pc = "scrolling"
          /\ tasks[t1].scroll_n < max_scrolls_per_session
          /\ ~TargetReached(tasks[t1])
          /\ tasks[t2].pc = "scraped"
          /\ ~tasks[t2].raised
          /\ tasks[t2].bucket = <<>>

\* Sessions between the acquire of the lock and its release.
InsideWrite == {t \in Tasks : tasks[t].pc \in {"locked", "dumping"}}

IsPrefix(a, b) == Len(a) <= Len(b) /\ a = SubSeq(b, 1, Len(a))

\* C12: writes of the credential store are mutually exclusive.  At most one
\* session is between open-for-write and the end of the dump; the file is
\* at every moment the beginning of one context's dump, never a mixture of
\* two; and whenever no session is writing, the file (if there is one)
\* holds one context's whole dump.
C12_WritesExclusive ==
    /\ Cardinality(InsideWrite) <= 1
    /\ \A t \in InsideWrite : cookie_lock = t
    /\ \A t \in Tasks :
          tasks[t].pc = "dumping" =>
              cookie_file = FileOf(SubSeq(CookieSnapshot(t), 1, tasks[t].wpos - 1))
    /\ cookie_file.exists =>
          \E t \in 0..MaxProxies : IsPrefix(cookie_file.data, CookieSnapshot(t))
    /\ (cookie_file.exists /\ \A t \in Tasks : tasks[t].pc # "dumping") =>
          \E t \in 0..MaxProxies : cookie_file.data = CookieSnapshot(t)

\* One session is in the middle of its dump while another, closing at the
\* same time, waits for the lock, after a third has saved its cookies.
C12_Witness ==
    \E t1, t2 \in Tasks :
        /\ tasks[t1].pc = "dumping"
        /\ tasks[t1].wpos = 2
        /\ tasks[t2].pc = "lock_wait"
        /\ \E t3 \in Tasks : Done(t3) /\ tasks[t3].opened

\* C13: a session that opens while the credential store does not exist
\* fails in open(): it goes from created straight to returned, never to a
\* navigation or a scroll; what the launch acquired is released; nothing
\* creates the store (no authentication is attempted); the task returns an
\* empty buffer and no profile, and its proxy and the health totals record
\* a failed session.
C13_NoStoreOpenFails ==
    [][\A t \in Tasks :
          (tasks[t].pc = "created" /\ tasks'[t].pc # "created" /\ ~cookie_file.exists) =>
              /\ tasks'[t].pc = "done"
              /\ ~tasks'[t].opened
              /\ ~tasks'[t].browser
              /\ tasks'[t].out_tweets = <<>>
              /\ tasks'[t].out_profile = <<>>
              /\ tasks'[t].rec = <<FailedOutcome>>
              /\ stats'[tasks[t].proxy] = [success |-> FALSE, tweets |-> 0, elapsed |-> Elapsed]
              /\ health'.sessions_run = health.sessions_run + 1
              /\ health'.sessions_ok = health.sessions_ok
              /\ ~cookie_file'.exists]_vars

\* A run without a credential store has ended: every session failed in
\* open() and the store still does not exist.
C13_Witness ==
    /\ opc = "done"
    /\ n_proxies = MaxProxies
    /\ ~cookie_file.exists
    /\ \A t \in Tasks : OpenFailed(t) /\ ~stats[tasks[t].proxy].success
    /\ health.sessions_run = MaxProxies
    /\ health.sessions_ok = 0

\* Every node of a payload: the value itself and the nodes of its members.
RECURSIVE NodesOf(_)
NodesOf(v) == {v} \cup UNION {NodesOf(v.vals[i]) : i \in 1..Len(v.vals)}

PureNumeric(str) ==
    /\ str # <<>>
    /\ \A i \in 1..Len(str) : str[i] \in {"0", "1", "2", "3", "4", "5", "6", "7", "8", "9"}

Blank(str) == \A i \in 1..Len(str) : str[i] = " "

Candidate(v) == v.type = "dict" /\ HasKey(v, "rest_id") /\ HasKey(v, "legacy")

\* A valid post: a numeric identifier, a legacy object, a text that is not
\* empty after trimming.
ValidPost(v) ==
    /\ Candidate(v)
    /\ GetOr(v, "rest_id", JNull).type = "str"
    /\ PureNumeric(GetOr(v, "rest_id", JNull).s)
    /\ GetOr(v, "legacy", JNull).type = "dict"
    /\ RawText(GetOr(v, "legacy", JNull)).type = "str"
    /\ ~Blank(RawText(GetOr(v, "legacy", JNull)).s)

\* How often an identifier was emitted.
Emitted(id) == Cardinality({i \in 1..Len(extracted.tweets) : extracted.tweets[i].id = id})

\* C14: for every payload, no post is emitted whose identifier is not a
\* pure numeric string or whose text is empty after trimming.
C14_OnlyRealPosts ==
    extracted.exc # "NotCalled" =>
        \A i \in 1..Len(extracted.tweets) :
            /\ PureNumeric(extracted.tweets[i].id)
            /\ ~Blank(extracted.tweets[i].text)

\* The payload holds a candidate with a non-numeric identifier and one with
\* a blank text, both with a sound rest, and a post was emitted.
C14_Witness ==
    /\ extracted.exc = "None"
    /\ Len(extracted.tweets) = 1
    /\ \E v1, v2 \in NodesOf(payload) :
          /\ Candidate(v1) /\ Candidate(v2)
          /\ GetOr(v1, "rest_id", JNull) = JStr(<<"1", "a">>)
          /\ RawText(GetOr(v1, "legacy", JNull)) = TextA
          /\ GetOr(v2, "rest_id", JNull) = JStr(<<"1">>)
          /\ RawText(GetOr(v2, "legacy", JNull)) = JStr(<<" ">>)

\* The identifiers of the valid posts of v's subtree that lie inside a node
\* that is no valid post (under: such a node was passed on the way to v).
RECURSIVE NestedIds(_, _)
NestedIds(v, under) ==
    (IF under /\ ValidPost(v) THEN {GetOr(v, "rest_id", JNull).s} ELSE {})
    \cup UNION {NestedIds(v.vals[i], under \/ ~ValidPost(v)) : i \in 1..Len(v.vals)}

\* A candidate on which line 565 or _is_tweet_id raises.
Malformed(v) ==
    /\ Candidate(v)
    /\ \/ GetOr(v, "legacy", JNull).type # "dict"
       \/ RawText(GetOr(v, "legacy", JNull)).type # "str"
       \/ Truthy(GetOr(v, "rest_id", JNull)) /\ GetOr(v, "rest_id", JNull).type # "str"

RefPresent(d, key) == HasKey(d, key) /\ GetOr(d, key, JNull) # JNull

IsRepost(v) == RefPresent(GetOr(v, "legacy", JNull), "retweeted_status_result")

IsQuote(v) == RefPresent(v, "quoted_status_result")

IsReply(v) ==
    /\ HasKey(GetOr(v, "legacy", JNull), "in_reply_to_status_id_str")
    /\ GetOr(GetOr(v, "legacy", JNull), "in_reply_to_status_id_str", JNull) # JStr(<<>>)

\* The tag goes with node v by the precedence repost, quote, reply, original
\* (the code spells repost "retweet").
TagFits(tag, v) ==
    /\ tag = "retweet"  <=> IsRepost(v)
    /\ tag = "quote"    <=> ~IsRepost(v) /\ IsQuote(v)
    /\ tag = "reply"    <=> ~IsRepost(v) /\ ~IsQuote(v) /\ IsReply(v)
    /\ tag = "original" <=> ~IsRepost(v) /\ ~IsQuote(v) /\ ~IsReply(v)

\* C16: every emitted post has one tag of original, reply, quote, repost,
\* the one its node gets by the precedence repost, then quote, then reply,
\* else original; a post with a repost reference and an in-reply-to
\* identifier is a repost.
C16_Classification ==
    extracted.exc # "NotCalled" =>
        /\ \A i \in 1..Len(extracted.tweets) :
              /\ extracted.tweets[i].tweet_type \in {"original", "reply", "quote", "retweet"}
              /\ \E v \in NodesOf(payload) :
                    /\ ValidPost(v)
                    /\ GetOr(v, "rest_id", JNull).s = extracted.tweets[i].id
                    /\ TagFits(extracted.tweets[i].tweet_type, v)
        /\ (ValidPost(payload) /\ extracted.exc = "None") =>
              /\ extracted.tweets # <<>>
              /\ TagFits(extracted.tweets[1].tweet_type, payload)

\* The payload is a post with a repost reference, an in-reply-to
\* identifier and no quote reference; it came out as a repost.
C16_Witness ==
    /\ ValidPost(payload)
    /\ IsRepost(payload)
    /\ IsReply(payload)
    /\ ~IsQuote(payload)
    /\ extracted.exc = "None"
    /\ extracted.tweets[1].tweet_type = "retweet"

\* The tasks of the invocation that checked out a proxy and have returned.
Completed == {t \in Tasks : Done(t) /\ tasks[t].proxy # None}

\* The posts of all returned buffers.
ReturnedIds == UNION {PostIds(tasks[t].out_tweets) : t \in Tasks}

\* C17, as the claim states it: a session whose open failed is not counted
\* in the denominator of the summary's success fraction, so with one failed
\* open beside two sessions that returned posts the summary reads 2/2.
C17_FailedOpenNotCounted ==
    (opc = "done" /\ n_proxies > 0) =>
        /\ Summary(stats, total_loaded).sessions = Cardinality({t \in Completed : tasks[t].opened})
        /\ Summary(stats, total_loaded).ok = Cardinality({t \in Completed : tasks[t].opened})
        /\ Len(merged) = Cardinality(ReturnedIds)

\* C17, amended: with a pool of 3 proxies, parallelism 2, one session whose
\* open fails and two sessions that return posts with disjoint identifiers,
\* the merged result has all their posts (limit permitting) and the summary
\* reads 2/3: a session whose open failed was recorded with the time it
\* took and is counted in the denominator; only proxies no session used
\* are left out, and the raw count sums the records of the sessions.
C17_FailedOpenCounted ==
    (opc \in {"running", "done"} /\ n_proxies > 0) =>
        /\ Summary(stats, total_loaded).sessions = Cardinality(Completed)
        /\ Summary(stats, total_loaded).ok = Cardinality({t \in Completed : tasks[t].opened})
        /\ Summary(stats, total_loaded).loaded = n_proxies
        /\ \A t \in Completed : stats[tasks[t].proxy].tweets = Len(tasks[t].out_tweets)
        /\ opc = "done" =>
              /\ Len(merged) = Cardinality(ReturnedIds)
              /\ Len(ret.tweets) = Min(limit, Len(merged))

\* Three proxies, two workers: one open failed, the two other sessions
\* returned one post each, with different identifiers; the result has both
\* and the summary reads 2/3.
C17_Witness ==
    /\ opc = "done"
    /\ n_proxies = 3
    /\ max_parallel_sessions = 2 \/ max_parallel_sessions = 3
    /\ Cardinality({t \in Tasks : OpenFailed(t)}) = 1
    /\ \E t1, t2 \in Tasks :
          /\ Len(tasks[t1].out_tweets) = 1
          /\ Len(tasks[t2].out_tweets) = 1
          /\ tasks[t1].out_tweets[1].id # tasks[t2].out_tweets[1].id
    /\ Len(ret.tweets) = 2
    /\ Summary(stats, total_loaded).ok = 2
    /\ Summary(stats, total_loaded).sessions = 3

\* C18: a rate-limiting response (a 429 of the target, or a timeline body
\* with the rate-limit error code, whatever posts it carries) appends
\* nothing to the buffer and changes no profile; the signal is set when its
\* handling ends; the records of earlier responses stay in the buffer and
\* are what the session returns.
C18_RateLimitAddsNothing ==
    [][/\ \A t \in Tasks, r \in RichResponses :
             (r.kind \in {"r429", "err88"} /\ SessionResponse(t, r)) =>
                 /\ tasks'[t].bucket = tasks[t].bucket
                 /\ tasks'[t].profile = tasks[t].profile
                 /\ RATE_LIMITED \/ tasks'[t].setting
       /\ \A t \in Tasks :
             /\ (tasks[t].setting /\ tasks'[t] # tasks[t]) => (RATE_LIMITED' /\ ~tasks'[t].setting)
             /\ (tasks[t].pc \in {"navigating", "scrolling"} /\ tasks'[t].pc = tasks[t].pc) =>
                    IsPrefix(tasks[t].bucket, tasks'[t].bucket)
             /\ tasks'[t].pc = "scraped" => tasks'[t].bucket = tasks[t].bucket
             /\ (tasks[t].pc = "scraped" /\ tasks'[t].pc = "done") =>
                    tasks'[t].out_tweets = tasks[t].bucket]_vars

\* The first response of the session brought a post; the second, in the
\* second scroll step, was rate-limiting: the signal is set and the buffer
\* holds the first post only.
C18_Witness ==
    \E t \in Tasks :
        /\ tasks[t].pc = "scrolling"
        /\ tasks[t].scroll_n = 2
        /\ tasks[t].nresp = 2
        /\ Len(tasks[t].bucket) = 1
        /\ tasks[t].bucket[1].cap = CaptureStamp(t, 1)
        /\ RATE_LIMITED

\* C19: the profile returned is, among the profiles the sessions of the
\* invocation captured, one with the most followers; it is absent exactly
\* when no session captured one.
C19_BestProfile ==
    (opc = "done" /\ n_proxies > 0) =>
        /\ ret.profile = <<>> <=> \A t \in Tasks : tasks[t].out_profile = <<>>
        /\ ret.profile # <<>> =>
              /\ \E t \in Tasks : tasks[t].out_profile = ret.profile
              /\ \A t \in Tasks :
                    tasks[t].out_profile # <<>> =>
                        tasks[t].out_profile[1].followers <= ret.profile[1].followers

\* The session that finished first captured the profile with fewer
\* followers; the one returned is the other session's.
C19_Witness ==
    /\ opc = "done"
    /\ Len(all_profiles) >= 2
    /\ all_profiles[1].followers < all_profiles[2].followers
    /\ ret.profile = <<all_profiles[2]>>

\* Session t's task returns in this step, having checked out a proxy.
Completes(t) == tasks[t].pc # "done" /\ tasks'[t].pc = "done" /\ tasks'[t].proxy # None

\* C20: the health totals.  Every completion of a session with a proxy adds
\* one to sessions-run, one to sessions-succeeded if it succeeded and its
\* record count to records-produced if it succeeded, and nothing else
\* changes a total; so sessions-run is the number of completed sessions,
\* sessions-succeeded <= sessions-run, and no total decreases or is reset,
\* also by a later scrape call.
C20_HealthTotals ==
    [][/\ Cardinality({t \in Tasks : Completes(t)}) <= 1
       /\ (\A t \in Tasks : ~Completes(t)) => health' = health
       /\ \A t \in Tasks :
             Completes(t) =>
                 LET o == tasks'[t].rec[1]
                 IN  /\ health'.sessions_run = health.sessions_run + 1
                     /\ health'.sessions_ok = health.sessions_ok + (IF o.success THEN 1 ELSE 0)
                     /\ health'.total_tweets =
                            health.total_tweets + (IF o.success THEN o.tweets ELSE 0)
                     /\ o.tweets = Len(tasks'[t].out_tweets)
       /\ health'.sessions_ok <= health'.sessions_run
       /\ health'.sessions_run >= health.sessions_run
       /\ health'.sessions_ok >= health.sessions_ok
       /\ health'.total_tweets >= health.total_tweets
       /\ health'.total_elapsed >= health.total_elapsed
       /\ (opc' = "running" \/ n_proxies' > 0) =>
              health'.sessions_run = Cardinality({t \in Tasks : tasks'[t].pc = "done" /\ tasks'[t].proxy # None})]_vars

\* After a run of three sessions, one of them failed, a further scrape call
\* has returned and the totals are those of the run.
C20_Witness ==
    /\ opc = "done"
    /\ n_proxies = 0
    /\ health.sessions_run = 3
    /\ health.sessions_ok = 2
    /\ health.total_tweets = 2

\* --- C21
\* The states of a session: created (constructed by _run_session), opened
\* (open() returned True), scraping (inside scrape()), scraped (scrape() has
\* returned, close() and the records follow), done (_run_session returned).
Scraping == {"stagger", "navigating", "scrolling"}

SessionPcs == {"created", "opened", "scraped"} \cup Scraping

\* C21 as stated, its last part: a session whose scrape() met a navigation
\* or evaluation error after a successful open ends recorded as failed
\* (success = false).
C21_ErrorAfterOpenFails ==
    \A t \in Tasks :
        (Done(t) /\ tasks[t].opened /\ tasks[t].raised) => tasks[t].rec = <<FailedOutcome>>

\* C21, amended: a session moves only along created -> opened -> scraping ->
\* scraped -> done; scrape() is entered only from opened, never after a
\* failed open; the session ends recorded as failed exactly when it ends
\* from created (open failed); a session that was opened ends recorded as a
\* success with the length of its buffer, also when its scrape() met an error.
C21_Lifecycle ==
    [][\A t \in Tasks :
          LET a == tasks[t].pc
              b == tasks'[t].pc
          IN  (a \in SessionPcs /\ a # b) =>
                /\ a = "created" => b \in {"opened", "done"}
                /\ a = "opened" => b \in {"stagger", "scraped"}
                /\ a \in Scraping => b \in Scraping \cup {"scraped"}
                /\ a = "scraped" => b = "done"
                /\ b \in Scraping \cup {"scraped"} => tasks[t].opened
                /\ (a = "created" /\ b = "done") =>
                      /\ ~tasks'[t].opened
                      /\ tasks'[t].rec = <<FailedOutcome>>
                      /\ ~stats'[tasks[t].proxy].success
                /\ (a = "scraped" /\ b = "done") =>
                      /\ tasks'[t].opened
                      /\ tasks'[t].rec = <<[success |-> TRUE, tweets |-> Len(tasks[t].bucket)]>>
                      /\ stats'[tasks[t].proxy].success
      ]_vars

\* A session was opened, its scrape() met an error, and it is recorded as a
\* success.
C21_Witness ==
    \E t \in Tasks :
        /\ Done(t)
        /\ tasks[t].opened
        /\ tasks[t].raised
        /\ tasks[t].rec = <<[success |-> TRUE, tweets |-> 1]>>
        /\ stats[tasks[t].proxy].success

\* --- C22
\* A scrape call starts its sessions (ScrapeBegin, the call found proxies).
StartsSessions == opc # "running" /\ opc' = "running"

\* C22: a signal left set by an earlier scrape call is observed neither by a
\* session of a later call nor by the later call's test of line 808: the
\* call that submits sessions leaves the signal clear before it submits
\* them, and while the call runs the signal becomes set only by one of its
\* own sessions, after a rate-limit response to that session; so a session
\* that skips its scrape and a result logged as ended early both follow a
\* set() of the same call.
C22_SignalClearAtStart ==
    [][/\ StartsSessions => ~RATE_LIMITED'
       /\ (opc = "running" /\ ~RATE_LIMITED /\ RATE_LIMITED') =>
              /\ opc' = "running"
              /\ \E t \in Tasks : /\ tasks[t].proxy # None
                                  /\ tasks[t].pc \in {"navigating", "scrolling"}
                                  /\ tasks[t].setting
                                  /\ ~tasks'[t].setting
       /\ (opc = "running" /\ RATE_LIMITED) => RATE_LIMITED'
       /\ (opc = "running" /\ opc' = "done") =>
              (log' = "warning_ended_early" <=> RATE_LIMITED)
      ]_vars

\* The last call ended early, the signal is still set when the next call
\* starts, and the session of the next call navigates: it found the signal
\* clear at lines 425 and 434.
C22_Witness ==
    /\ opc = "running"
    /\ log = "warning_ended_early"
    /\ ~RATE_LIMITED
    /\ \E t \in Tasks : tasks[t].pc = "navigating"

\* --- C23
Submitted == {t \in Tasks : tasks[t].pc # "unused"}

Pending == {t \in Tasks : tasks[t].pc = "pending"}

\* The tasks for which _run_session constructed a session.
Sessions == {t \in Tasks : tasks[t].proxy # None}

\* C23: a scrape call submits exactly n_proxies = remaining() tasks; every
\* task that has run checked out one entry of the queue and constructed one
\* session, none found the queue empty; the entries not yet checked out are
\* as many as the tasks not yet run; the sessions hold pairwise different
\* entries of the queue.
C23_OneTaskPerProxy ==
    /\ Cardinality(Submitted) = n_proxies
    /\ Submitted = Pending \cup Sessions
    /\ Pending \cap Sessions = {}
    /\ opc = "running" => Remaining(q) = Cardinality(Pending)
    /\ \A t \in Sessions : tasks[t].slot \in 1..total_loaded
    /\ \A t1, t2 \in Sessions : t1 # t2 => tasks[t1].slot # tasks[t2].slot
    /\ (opc = "done" /\ n_proxies > 0) =>
          /\ Cardinality(Sessions) = n_proxies
          /\ q = <<>>

\* A call on a queue of MaxProxies entries: every task has run and has its
\* session, the last one constructed while an earlier one still runs.
C23_Witness ==
    /\ opc = "running"
    /\ n_proxies = MaxProxies
    /\ Cardinality(Sessions) = MaxProxies
    /\ q = <<>>
    /\ Cardinality({t \in Sessions : tasks[t].pc = "created"}) = 1
    /\ Cardinality({t \in Sessions : tasks[t].pc = "scraped"}) = 1

\* --- C24
\* C24: a session that tests the signal at the start of scrape() (line 425)
\* or after its stagger sleep (line 434) and finds it set leaves scrape()
\* at once: no navigation, no scroll step, buffer and profile as they were;
\* a session that never navigated has scrolled nothing and received
\* nothing, and _run_session returns the buffer it holds.
C24_SkipWhenSignalled ==
    [][\A t \in Tasks :
          LET a == tasks[t].pc
              b == tasks'[t].pc
          IN  /\ (a \in {"opened", "stagger"} /\ RATE_LIMITED /\ a # b) =>
                    /\ b = "scraped"
                    /\ ~tasks'[t].navigated
                    /\ ~tasks'[t].raised
                    /\ tasks'[t].bucket = tasks[t].bucket
                    /\ tasks'[t].profile = tasks[t].profile
              /\ (a = "opened" /\ RATE_LIMITED) => b # "stagger"
              /\ (a \in SessionPcs /\ ~tasks[t].navigated) =>
                    /\ a \notin {"navigating", "scrolling"}
                    /\ tasks[t].scroll_n = 0
                    /\ tasks[t].nresp = 0
              /\ (a = "scraped" /\ ~tasks[t].navigated /\ b = "done") =>
                    /\ tasks'[t].out_tweets = tasks[t].bucket
                    /\ tasks'[t].out_profile = tasks[t].profile
                    /\ tasks'[t].rec = <<[success |-> TRUE, tweets |-> Len(tasks[t].bucket)]>>
      ]_vars

\* One session received the rate-limit response in its first scroll step
\* and set the signal; the other one has returned from scrape() without
\* navigating, its buffer empty.
C24_Witness ==
    /\ RATE_LIMITED
    /\ \E t1, t2 \in Tasks :
          /\ tasks[t1].pc = "scraped"
          /\ ~tasks[t1].navigated
          /\ tasks[t1].bucket = <<>>
          /\ tasks[t2].pc = "scrolling"
          /\ tasks[t2].nresp = 1

\* --- C25
\* A writer holds the lock and has truncated the file but not yet written
\* the whole dump.
MidWrite(t) ==
    /\ tasks[t].pc = "dumping"
    /\ tasks[t].wpos <= CookieChunks
    /\ cookie_lock = t

\* C25: the load of the credential store in open() is not excluded by the
\* write lock.  A created session can always take its open() step, also
\* while another session holds the lock; what the load finds is the file as
\* it is at that moment, so open() can succeed exactly if the file holds a
\* whole dump, and while a writer is in the middle of its dump the load
\* finds a truncated file and open() can only fail.
C25_ReadsNotExcluded ==
    \A t \in Tasks :
        tasks[t].pc = "created" =>
            /\ ENABLED SessionOpen(t, FALSE)
            /\ (ENABLED SessionOpen(t, TRUE)) <=> CookiesLoadable(cookie_file)
            /\ (\E w \in Tasks : MidWrite(w)) => ~ENABLED SessionOpen(t, TRUE)

\* One session is about to load the store, which the login had written,
\* while another one holds the lock with half of its dump in the file: the
\* load is not held back and reads the half dump.
C25_Witness ==
    \E t, w \in Tasks :
        /\ tasks[t].pc = "created"
        /\ MidWrite(w)
        /\ tasks[w].wpos = 2
        /\ cookie_file = FileOf(<<CookieSnapshot(w)[1]>>)
        /\ ENABLED SessionOpen(t, FALSE)
        /\ ~ENABLED SessionOpen(t, TRUE)

\* --- C26
\* C26: a session holds a browser only between a successful open() and the
\* end of close(); a task that has returned holds none, whichever way it
\* went (open failed, scrape() returned normally, early on the signal, or
\* after an error; cookies saved or not); and every session that holds a
\* browser comes to the point where it has returned and holds none.
C26_BrowserReleased ==
    /\ [](\A t \in Tasks :
             /\ tasks[t].browser <=> tasks[t].pc \in {"opened", "scraped"} \cup Scraping
             /\ Done(t) => ~tasks[t].browser)
    /\ \A t \in Tasks : tasks[t].browser ~> (Done(t) /\ ~tasks[t].browser)

\* One session failed to open, the other one opened, met an error in
\* scrape() and failed to save its cookies (the store is still the one the
\* login wrote); both have returned and neither holds a browser.
C26_Witness ==
    \E t1, t2 \in Tasks :
        /\ OpenFailed(t1)
        /\ ~tasks[t1].browser
        /\ Done(t2)
        /\ tasks[t2].opened
        /\ tasks[t2].raised
        /\ ~tasks[t2].browser
        /\ cookie_file = LoginCookies

\* --- C27
\* The session of task t ends in this step: _run_session returns.
SessionEnds(t) == tasks[t].pc # "done" /\ tasks'[t].pc = "done" /\ tasks'[t].proxy # None

\* C27 as stated: whenever a session ends, succeeded or failed, its
\* _save_cookies has written its context's cookies to the store.
C27_StoreUpdatedAtEnd ==
    [][\A t \in Tasks : SessionEnds(t) => tasks[t].pc = "saved"]_vars

\* C27, amended: a session that opened ends only after _save_cookies has
\* returned, and its browser is released only then; when the save goes
\* through, the store holds that session's whole dump at the moment the
\* lock, held by that session, is released; the store changes only in
\* steps of the session holding the lock.  When the save fails (cookies()
\* or the open of the file raises) the session ends unsaved, the store as
\* it was, and the browser is released all the same.  A session whose open
\* failed ends without touching the store.
SaveFails(t) ==
    \/ tasks[t].pc = "scraped"
    \/ tasks[t].pc = "locked" /\ cookie_lock = t /\ cookie_lock' = Unlocked

C27_SaveBeforeRelease ==
    [][\A t \in Tasks :
          /\ SessionEnds(t) =>
                /\ cookie_file' = cookie_file
                /\ \/ tasks[t].pc = "created" /\ ~tasks'[t].opened
                   \/ tasks[t].pc = "saved" /\ tasks'[t].opened
                   \/ SaveFails(t) /\ tasks'[t].opened
          /\ (tasks[t].browser /\ ~tasks'[t].browser) =>
                /\ SessionEnds(t)
                /\ tasks[t].pc = "saved" \/ SaveFails(t)
          /\ (tasks[t].pc # "saved" /\ tasks'[t].pc = "saved") =>
                /\ tasks[t].browser
                /\ cookie_lock = t
                /\ cookie_lock' = Unlocked
                /\ cookie_file = FileOf(CookieSnapshot(t))
                /\ cookie_file' = cookie_file
          /\ cookie_file' # cookie_file =>
                \E w \in Tasks : /\ cookie_lock = w
                                 /\ tasks[w].pc \in {"locked", "dumping"}
                                 /\ tasks[w].browser
      ]_vars

\* One session failed to open and has ended; a second one opened and has
\* ended; a third one has saved its cookies, which the store holds, and
\* still holds its browser.
C27_Witness ==
    \E t1, t2, t3 \in Tasks :
        /\ OpenFailed(t1)
        /\ Done(t2) /\ tasks[t2].opened
        /\ tasks[t3].pc = "saved" /\ tasks[t3].browser
        /\ cookie_file = FileOf(CookieSnapshot(t3))
        /\ t2 # t3

\* --- C28
\* C28: when goto raises (a timeout or any other navigation error), scrape()
\* returns with the buffer and the profile as the interceptor left them;
\* _run_session then closes the session (the browser is released) and
\* returns that buffer, and the proxy queue and the health monitor record
\* a success with the buffer's length.
C28_NavigationErrorNotFatal ==
    [][\A t \in Tasks :
          LET a == tasks[t].pc
              b == tasks'[t].pc
          IN  /\ (a = "navigating" /\ tasks'[t].raised) =>
                    /\ b = "scraped"
                    /\ tasks'[t].scroll_n = 0
                    /\ tasks'[t].bucket = tasks[t].bucket
                    /\ tasks'[t].profile = tasks[t].profile
                    /\ tasks'[t].browser
              /\ (a = "scraped" /\ tasks[t].raised /\ a # b) =>
                    /\ b = "done"
                    /\ ~tasks'[t].browser
                    /\ tasks'[t].out_tweets = tasks[t].bucket
                    /\ tasks'[t].out_profile = tasks[t].profile
                    /\ tasks'[t].rec = <<[success |-> TRUE, tweets |-> Len(tasks[t].bucket)]>>
                    /\ stats'[tasks[t].proxy].success
                    /\ stats'[tasks[t].proxy].tweets = Len(tasks[t].bucket)
                    /\ health'.sessions_run = health.sessions_run + 1
                    /\ health'.sessions_ok = health.sessions_ok + 1
                    /\ health'.total_tweets = health.total_tweets + Len(tasks[t].bucket)
                    /\ all_batches' = Append(all_batches, tasks[t].bucket)
      ]_vars

\* goto raised after the interceptor had buffered two posts and a profile:
\* scrape() has returned them, no scroll step was made, the session is
\* about to be closed.
C28_Witness ==
    \E t \in Tasks :
        /\ tasks[t].pc = "scraped"
        /\ tasks[t].raised
        /\ tasks[t].navigated
        /\ tasks[t].scroll_n = 0
        /\ Len(tasks[t].bucket) = 2
        /\ tasks[t].profile # <<>>
        /\ tasks[t].browser
        /\ ENABLED SessionFinish(t, TRUE)

\* --- C29
\* C29 as stated: after goto raised, the session goes on to the scroll loop
\* (unless the signal is set): a scroll step follows the failed navigation.
C29_ScrollsAfterNavigationError ==
    [][\A t \in Tasks :
          (NavigateEnd(t, TRUE) /\ ~RATE_LIMITED) => tasks'[t].pc = "scrolling"
      ]_vars

\* C29, amended: when goto raises, scrape() ends there: no settle pause, no
\* scroll step, nothing is collected after the error; the session returns
\* what was intercepted while it navigated.  The scroll loop is entered only
\* after a goto that returned, and a session that made a scroll step did not
\* have its navigation fail.
C29_NoScrollAfterNavigationError ==
    [][\A t \in Tasks :
          LET a == tasks[t].pc
              b == tasks'[t].pc
          IN  /\ NavigateEnd(t, TRUE) =>
                    /\ b = "scraped"
                    /\ tasks'[t].raised
                    /\ tasks'[t].scroll_n = 0
                    /\ tasks'[t].bucket = tasks[t].bucket
              /\ (a # "scrolling" /\ b = "scrolling") =>
                    /\ a = "navigating"
                    /\ ~tasks'[t].raised
                    /\ ~RATE_LIMITED
              /\ (a = "scraped" /\ a # b) =>
                    /\ b = "done"
                    /\ tasks'[t].out_tweets = tasks[t].bucket
              /\ (a = "scraped" /\ tasks[t].raised /\ tasks[t].scroll_n = 0) =>
                    ~ENABLED (\E r \in RichResponses : SessionResponse(t, r))
      ]_vars

\* goto raised with the signal clear and nothing buffered yet: scrape() has
\* returned an empty buffer without a scroll step, and no response can
\* reach the session any more.
C29_Witness ==
    \E t \in Tasks :
        /\ tasks[t].pc = "scraped"
        /\ tasks[t].raised
        /\ tasks[t].navigated
        /\ tasks[t].scroll_n = 0
        /\ tasks[t].bucket = <<>>
        /\ ~RATE_LIMITED
        /\ ~ENABLED (\E r \in RichResponses : SessionResponse(t, r))

\* --- C30
\* Session t starts a scroll step in this step.
StartsScroll(t) == tasks'[t].pc = "scrolling" /\ tasks'[t].scroll_n # tasks[t].scroll_n

\* C30: a session makes at most max_scrolls_per_session scroll steps, one
\* after the other; a scroll step that ends with at least
\* tweets_per_session records in the buffer is the last one; a scroll step
\* starts only while the signal is clear, so a session that finds the
\* signal set at the head of the loop returns from scrape().
C30_ScrollLoopBounds ==
    [][\A t \in Tasks :
          /\ tasks'[t].scroll_n \in 0..max_scrolls_per_session
          /\ StartsScroll(t) =>
                /\ tasks'[t].scroll_n = tasks[t].scroll_n + 1
                /\ ~RATE_LIMITED
                /\ tasks[t].pc = "scrolling" => Len(tasks[t].bucket) < tweets_per_session
          /\ \A raises \in BOOLEAN :
                (ScrollEnd(t, raises) /\ Len(tasks[t].bucket) >= tweets_per_session) =>
                    /\ tasks'[t].pc = "scraped"
                    /\ tasks'[t].scroll_n = tasks[t].scroll_n
                    /\ tasks'[t].bucket = tasks[t].bucket
          /\ \A raises \in BOOLEAN :
                ((ScrollEnd(t, raises) \/ NavigateEnd(t, raises)) /\ RATE_LIMITED) =>
                    /\ tasks'[t].pc = "scraped"
                    /\ tasks'[t].scroll_n = tasks[t].scroll_n
      ]_vars

\* The session reached its target in its first scroll step and left the
\* loop, with scroll steps to spare and the signal clear.
C30_Witness ==
    \E t \in Tasks :
        /\ tasks[t].pc = "scraped"
        /\ ~tasks[t].raised
        /\ tasks[t].scroll_n = 1
        /\ max_scrolls_per_session > 1
        /\ Len(tasks[t].bucket) = tweets_per_session
        /\ ~RATE_LIMITED

\* ---------------------------------------------------------------- C31
\* The responses whose handling calls resp.json() and an extractor, and
\* raises there: the body is no JSON, the profile walk raises, the loop over
\* the errors raises, or the walk of _extract_tweets raises.
Raises(r) ==
    \/ /\ Route(r) = "profile"
       /\ (r.body = NotJson \/ ExtractUserProfile(r.body).exc)
    \/ /\ Route(r) = "timeline"
       /\ \/ r.body = NotJson
          \/ ErrorScan(r.body) = "raise"
          \/ ErrorScan(r.body) = "none" /\ ExtractTweets(r.body).exc = "Exception"

\* The responses from which on_response appends posts: a timeline response
\* whose body decodes, has no error 88 and is walked without an exception.
Appends(r) ==
    /\ Route(r) = "timeline"
    /\ r.body # NotJson
    /\ ErrorScan(r.body) = "none"
    /\ ExtractTweets(r.body).exc = "None"

\* The posts of a body, as session t holds them after its k-th response.
Captured(r, t, k) ==
    LET found == ExtractTweets(r.body).tweets
    IN  [i \in 1..Len(found) |-> Post(AsPost(found[i]), t, k)]

\* A session that has handled a response whose handling raised.
HasSwallowed(t) == \E i \in 1..Len(tasks[t].handled) : Raises(tasks[t].handled[i])

\* C31: when the decoding or the extraction of a response raises, the error
\* is swallowed: the step leaves the session's buffer and profile as they
\* were (nothing of that response is appended), the session stays where it
\* is in its navigation or scroll loop, and the signal is not touched; a
\* response that carries posts and is delivered after it has all of them
\* appended.
C31_ErrorContained ==
    [][\A t \in Tasks :
          Len(tasks'[t].handled) > Len(tasks[t].handled) =>
              LET r == tasks'[t].handled[Len(tasks'[t].handled)]
              IN  /\ InterceptBody(t, r)
                  /\ Raises(r) =>
                        /\ tasks'[t].bucket = tasks[t].bucket
                        /\ tasks'[t].profile = tasks[t].profile
                        /\ tasks'[t].pc = tasks[t].pc
                        /\ tasks'[t].scroll_n = tasks[t].scroll_n
                        /\ ~tasks'[t].setting
                  /\ (HasSwallowed(t) /\ Appends(r)) =>
                        tasks'[t].bucket =
                            tasks[t].bucket \o Captured(r, t, Len(tasks[t].handled) + 1)]_vars

\* A session whose first response carried a post and then a candidate that
\* made the walk raise, and whose second response carried a post: the
\* buffer holds the second response's post only, and the session scrolls on.
C31_Witness ==
    \E t \in Tasks :
        /\ tasks[t].pc = "scrolling"
        /\ Len(tasks[t].handled) = 2
        /\ Route(tasks[t].handled[1]) = "timeline"
        /\ ErrorScan(tasks[t].handled[1].body) = "none"
        /\ Raises(tasks[t].handled[1])
        /\ Walk(tasks[t].handled[1].body, [tweets |-> <<>>, seen |-> {}, exc |-> FALSE]).tweets # <<>>
        /\ Appends(tasks[t].handled[2])
        /\ tasks[t].bucket = Captured(tasks[t].handled[2], t, 2)
        /\ Len(tasks[t].bucket) = 1

\* ---------------------------------------------------------------- C32
\* The response of the step that has just been delivered to session t.
Delivered(t) == tasks'[t].handled[Len(tasks'[t].handled)]

IsRateLimit429(r) == r.status = 429 /\ TargetHosts \cap r.url # {}

MatchesProfile(r) == USER_PROFILE_PATTERNS \cap r.url # {}

MatchesTimeline(r) == INTERCEPT_PATTERNS \cap r.url # {}

\* C32: a response is handled by one route, the first that applies of: 429
\* of a target host (touches the signal only), profile endpoint (may store
\* a profile; never appends a post and never touches the signal, also when
\* its URL matches a timeline pattern and its body carries posts or error
\* 88), timeline endpoint (may append posts or touch the signal; never
\* stores a profile).  A response that is no 429 of a target host and whose
\* URL matches no pattern changes neither buffer, nor profile, nor signal.
C32_RoutingExclusive ==
    [][\A t \in Tasks :
          Len(tasks'[t].handled) > Len(tasks[t].handled) =>
              LET r == Delivered(t)
                  s == tasks[t]
                  s2 == tasks'[t]
              IN  /\ InterceptBody(t, r)
                  /\ RATE_LIMITED' = RATE_LIMITED
                  /\ IsRateLimit429(r) =>
                        /\ s2.bucket = s.bucket
                        /\ s2.profile = s.profile
                        /\ s2.setting = ~RATE_LIMITED
                  /\ (~IsRateLimit429(r) /\ MatchesProfile(r)) =>
                        /\ s2.bucket = s.bucket
                        /\ ~s2.setting
                        /\ s2.profile \in {s.profile} \cup
                              {<<[followers |-> n]>> : n \in Followers}
                  /\ (~IsRateLimit429(r) /\ ~MatchesProfile(r) /\ MatchesTimeline(r)) =>
                        /\ s2.profile = s.profile
                        /\ s2.setting =>
                              (s2.bucket = s.bucket /\ ErrorScan(r.body) = "rate")
                  /\ (~IsRateLimit429(r) /\ ~MatchesProfile(r) /\ ~MatchesTimeline(r)) =>
                        /\ s2.bucket = s.bucket
                        /\ s2.profile = s.profile
                        /\ ~s2.setting]_vars

\* A session whose only response so far came from a profile endpoint (its
\* URL holds "graphql" too) with a body that carries a post beside the
\* user: the profile is stored, the buffer is empty.
C32_Witness ==
    \E t \in Tasks :
        /\ tasks[t].pc \in {"navigating", "scrolling"}
        /\ Len(tasks[t].handled) = 1
        /\ tasks[t].handled[1].status = 200
        /\ MatchesProfile(tasks[t].handled[1])
        /\ MatchesTimeline(tasks[t].handled[1])
        /\ Appended(Walk(tasks[t].handled[1].body,
                         [tweets |-> <<>>, seen |-> {}, exc |-> FALSE])) # <<>>
        /\ tasks[t].profile # <<>>
        /\ tasks[t].bucket = <<>>
        /\ ~tasks[t].setting

\* ---------------------------------------------------------------- C33
\* The profile _extract_user_profile finds in the body of r, if r is handled
\* by the profile route and a profile is found.
ProfileOf(r) ==
    IF ~IsRateLimit429(r) /\ MatchesProfile(r) /\ r.body # NotJson
       /\ ~ExtractUserProfile(r.body).exc
    THEN ExtractUserProfile(r.body).found
    ELSE <<>>

\* The profiles session t has observed, in the order of their responses.
RECURSIVE ProfilesIn(_)
ProfilesIn(rs) == IF rs = <<>> THEN <<>> ELSE ProfileOf(Head(rs)) \o ProfilesIn(Tail(rs))

\* The first item of a list, as a list.
FirstOf(items) == IF items = <<>> THEN <<>> ELSE <<Head(items)>>

\* C33: a session holds at most one profile, the first it observed: a
\* profile once set is changed by no step (no later profile response, no
\* other response, no step of scrape), and is what the session returns.
C33_FirstProfileKept ==
    /\ [](\A t \in Tasks :
            /\ Len(tasks[t].profile) <= 1
            /\ tasks[t].pc \in {"navigating", "scrolling", "scraped"} =>
                  tasks[t].profile = FirstOf(ProfilesIn(tasks[t].handled)))
    /\ [][\A t \in Tasks :
            tasks[t].profile # <<>> =>
                IF tasks'[t].pc = "done"
                THEN tasks'[t].out_profile = tasks[t].profile
                ELSE tasks'[t].profile = tasks[t].profile]_vars

\* A session that has received two profile responses with different
\* followers: it holds the first one's profile.
C33_Witness ==
    \E t \in Tasks :
        /\ Len(tasks[t].handled) = 2
        /\ Len(ProfilesIn(tasks[t].handled)) = 2
        /\ ProfilesIn(tasks[t].handled)[1] # ProfilesIn(tasks[t].handled)[2]
        /\ tasks[t].profile = <<ProfilesIn(tasks[t].handled)[1]>>

\* ---------------------------------------------------------------- C34
\* The call of open() session t makes next.
NextOpenCall(t) ==
    IF tasks[t].pc \in {"created", "opening"} THEN OpenOrder[tasks[t].ostep + 1] ELSE "none"

\* C34: open() registers the response handler before it loads the
\* credential store, and the page navigates only after open() has returned
\* True; so the handler is registered whenever the page loads or scrolls,
\* and every response the page receives then is handed to on_response.
C34_InterceptorFirst ==
    /\ [](\A t \in Tasks :
            /\ NextOpenCall(t) = "load_cookies" => tasks[t].interceptor
            /\ tasks[t].pc \in {"opened", "stagger", "navigating", "scrolling"} =>
                  tasks[t].interceptor
            /\ tasks[t].navigated => tasks[t].opened)
    /\ [][\A t \in Tasks, r \in Responses :
            PageResponse(t, r) => tasks'[t] = InterceptedBy(tasks[t], r, t)]_vars

\* A session that is scrolling after its page has received a timeline
\* response during the navigation: the post is in its buffer.
C34_Witness ==
    \E t \in Tasks :
        /\ tasks[t].pc = "scrolling"
        /\ tasks[t].interceptor
        /\ tasks[t].nresp = 1
        /\ Len(tasks[t].bucket) = 1
        /\ tasks[t].bucket[1].cap = CaptureStamp(t, 1)

\* ---------------------------------------------------------------- C35
\* The entry of a proxy no outcome was recorded for.
NoOutcome == [success |-> FALSE, tweets |-> 0, elapsed |-> 0]

\* C35: the outcome of a checked-out proxy is recorded exactly once.  While
\* the task that checked it out runs, neither the pool nor the health
\* monitor has a record of it; the step in which the task returns makes one
\* pool record and one health record with the same success flag and the
\* same count; no other step changes the pool's entries or the health
\* totals, so the entry of a returned task's proxy stays what that task
\* recorded.
C35_RecordedOnce ==
    /\ [](\A t \in Tasks :
            /\ (tasks[t].proxy # None /\ ~Done(t)) =>
                  /\ tasks[t].rec = <<>>
                  /\ stats[tasks[t].proxy] = NoOutcome
            /\ (tasks[t].proxy # None /\ Done(t)) =>
                  /\ Len(tasks[t].rec) = 1
                  /\ stats[tasks[t].proxy] =
                        [success |-> tasks[t].rec[1].success,
                         tweets  |-> tasks[t].rec[1].tweets,
                         elapsed |-> Elapsed])
    /\ []((\E t \in Tasks : tasks[t].pc # "unused") =>
             health.sessions_run = Cardinality(Completed))
    /\ [][/\ \A t \in Tasks :
               Completes(t) =>
                   LET o == tasks'[t].rec[1]
                   IN  /\ stats' = Record(stats, tasks[t].proxy, o.success, o.tweets, Elapsed)
                       /\ health' = HealthRecord(health, o.success, o.tweets, Elapsed)
                       /\ o.tweets = Len(tasks'[t].out_tweets)
                       /\ \A u \in Tasks \ {t} : tasks'[u] = tasks[u]
          /\ (\A t \in Tasks : ~Completes(t)) => (stats' = stats /\ health' = health)]_vars

\* Both sessions of a call have returned, one after a failed open and one
\* with a post: the pool and the health monitor hold one record of each.
C35_Witness ==
    \E t, u \in Tasks :
        /\ Done(t) /\ Done(u)
        /\ tasks[t].rec = <<[success |-> FALSE, tweets |-> 0]>>
        /\ tasks[u].rec = <<[success |-> TRUE, tweets |-> 1]>>
        /\ stats[tasks[t].proxy] = [success |-> FALSE, tweets |-> 0, elapsed |-> Elapsed]
        /\ stats[tasks[u].proxy] = [success |-> TRUE, tweets |-> 1, elapsed |-> Elapsed]
        /\ health.sessions_run = 2
        /\ health.sessions_ok = 1
        /\ health.total_tweets = 1

\* ---------------------------------------------------------------- C36
\* The nodes of a payload in the order the walk meets them: a node, then
\* its values or items in their order.
RECURSIVE Preorder(_)
RECURSIVE PreorderAll(_)
Preorder(v) == <<v>> \o PreorderAll(v.vals)

PreorderAll(values) ==
    IF values = <<>> THEN <<>> ELSE Preorder(Head(values)) \o PreorderAll(Tail(values))

IdOf(v) == GetOr(v, "rest_id", JNull).s

\* The first valid post with this identifier that the walk meets.
FirstWith(id) ==
    LET nodes == Preorder(payload)
        k == CHOOSE i \in 1..Len(nodes) :
                 /\ ValidPost(nodes[i]) /\ IdOf(nodes[i]) = id
                 /\ \A j \in 1..(i - 1) : ~(ValidPost(nodes[j]) /\ IdOf(nodes[j]) = id)
    IN  nodes[k]

\* The identifiers of the valid posts of v's subtree that are found without
\* entering dup.
RECURSIVE IdsOutside(_, _)
IdsOutside(v, dup) ==
    IF v = dup THEN {}
    ELSE (IF ValidPost(v) THEN {IdOf(v)} ELSE {})
         \cup UNION {IdsOutside(v.vals[i], dup) : i \in 1..Len(v.vals)}

\* C36: in the list one extraction call returns no identifier occurs twice:
\* of the valid posts with one identifier the first the walk meets is
\* emitted and the later ones are not.  The children of every valid post,
\* a later occurrence included, are walked, so that every valid post of the
\* payload has its identifier emitted once, wherever it is nested.
C36_DedupWalksChildren ==
    extracted.exc = "None" =>
        /\ \A i, j \in 1..Len(extracted.tweets) :
              i # j => extracted.tweets[i].id # extracted.tweets[j].id
        /\ \A v \in NodesOf(payload) : ValidPost(v) => Emitted(IdOf(v)) = 1
        /\ \A i \in 1..Len(extracted.tweets) :
              LET v == FirstWith(extracted.tweets[i].id)
                  leg == GetOr(v, "legacy", JNull)
              IN  extracted.tweets[i] = TweetDict(v, leg, Strip(RawText(leg).s))

\* The payload is a post that reposts a post with the same identifier, which
\* in turn reposts a post with another identifier: the second, a duplicate,
\* is not emitted, and the third, found only inside the duplicate, is.
C36_Witness ==
    /\ extracted.exc = "None"
    /\ ValidPost(payload)
    /\ Len(extracted.tweets) = 2
    /\ extracted.tweets[1].id = IdOf(payload)
    /\ \E dup \in NodesOf(payload) \ {payload} :
          /\ ValidPost(dup)
          /\ IdOf(dup) = IdOf(payload)
          /\ \E w \in NodesOf(dup) \ {dup} :
                /\ ValidPost(w)
                /\ IdOf(w) # IdOf(dup)
                /\ IdOf(w) \notin IdsOutside(payload, dup)
                /\ extracted.tweets[2].id = IdOf(w)

\* ---------------------------------------------------------------- C37
\* The values d levels below v.
RECURSIVE NodesAt(_, _)
NodesAt(v, d) ==
    IF d = 0 THEN {v}
    ELSE UNION {NodesAt(v.vals[i], d - 1) : i \in 1..Len(v.vals)}

\* An object with a handle and a display name and without a full text.
UserShaped(n) ==
    /\ n.type = "dict"
    /\ Truthy(GetOr(n, "screen_name", JNull))
    /\ Truthy(GetOr(n, "name", JNull))
    /\ ~Truthy(GetOr(n, "full_text", JNull))

\* The user-shaped objects at most d levels below the candidate.
UsersWithin(d) == {n \in UNION {NodesAt(payload, i) : i \in 0..d} : UserShaped(n)}

\* No known path raises and none yields a handle: the fallback decides.
FallbackDecides ==
    /\ \A i \in 1..Len(KnownPaths) :
          LET c == GetPath(payload, KnownPaths[i])
          IN  c # PathRaised /\ ~(c.type = "dict" /\ Truthy(GetOr(c, "screen_name", JNull)))

\* C37: when no known path yields a handle, _find_user returns without an
\* exception; what it returns is an object at most 6 levels below the
\* candidate with a handle and a display name and without a full text, or,
\* exactly when there is no such object within 6 levels, the empty author.
C37_FallbackBounded ==
    (extracted # NotSearched /\ FallbackDecides) =>
        /\ extracted.exc = "None"
        /\ extracted.user # JDict(<<>>, <<>>) => extracted.user \in UsersWithin(6)
        /\ extracted.user = JDict(<<>>, <<>>) <=> UsersWithin(6) = {}

\* The candidate holds a user-shaped object 7 or more levels below it and,
\* after it in the order of the search, another one 6 levels below: the
\* second is the author.
C37_Witness ==
    /\ extracted # NotSearched
    /\ FallbackDecides
    /\ UsersWithin(6) # {}
    /\ UsersWithin(MaxUserDepth) \ UsersWithin(6) # {}
    /\ \E n \in UsersWithin(MaxUserDepth) \ UsersWithin(6) :
          n \in NodesOf(GetOr(payload, "x", JNull))
    /\ extracted.user \in NodesAt(payload, 6)
    /\ extracted.user \in NodesOf(GetOr(payload, "y", JNull))

\* ---------------------------------------------------------------- C38
\* Task t returns in this step, with or without a proxy.
TaskReturns(t) == tasks[t].pc \notin {"unused", "done"} /\ tasks'[t].pc = "done"

\* C38: a scrape call on a pool with proxies ends: every submitted task
\* returns (after a failed open, after its scrape, or after skipping the
\* scrape on the signal) and then the call returns.  Each returning task's
\* buffer is appended to all_batches in the step it returns, so all_batches
\* is in completion order; the merge with its dedup and sort is made in the
\* step that ends the call, when every submitted task has returned.
C38_CallTerminates ==
    /\ \A t \in Tasks : (tasks[t].pc = "pending") ~> Done(t)
    /\ (opc = "running") ~> (opc = "done")
    /\ [](opc = "running" => merged = <<>>)
    /\ [][/\ \A t \in Tasks :
               TaskReturns(t) =>
                   /\ all_batches' = Append(all_batches, tasks'[t].out_tweets)
                   /\ opc' = "running"
          /\ (opc = "running" /\ opc' = "done") =>
                 /\ \A t \in Tasks : tasks[t].pc \in {"unused", "done"}
                 /\ Len(all_batches) = n_proxies
                 /\ all_batches' = all_batches
                 /\ merged' = SortDesc(MergeDedup(all_batches))]_vars

\* A call with two tasks has returned; the second task submitted returned
\* first, with a post, the first after a failed open; the post is merged.
C38_Witness ==
    /\ opc = "done"
    /\ n_proxies = 2
    /\ Done(1) /\ Done(2)
    /\ tasks[1].rec = <<[success |-> FALSE, tweets |-> 0]>>
    /\ Len(tasks[2].out_tweets) = 1
    /\ all_batches = <<tasks[2].out_tweets, tasks[1].out_tweets>>
    /\ merged = tasks[2].out_tweets

\* ---------------------------------------------------------------- C39
\* The last call found proxies and has returned.
CallOnPoolReturned == opc = "done" /\ n_proxies > 0

\* C39: when a call that found proxies has returned, the pool is empty: a
\* queued task checks out its proxy also when the signal is set.  A call
\* made after it finds no proxy: it starts no session, records nothing,
\* returns no post and no profile, and leaves the pool empty.
C39_PoolUsedUp ==
    /\ [](CallOnPoolReturned => Remaining(q) = 0)
    /\ [](opc = "done" => ~ENABLED ScrapeBegin)
    /\ [][/\ \A t \in Tasks :
               (tasks[t].pc = "pending" /\ tasks'[t].pc # "pending") =>
                   /\ tasks'[t].proxy = Head(q)
                   /\ q' = Tail(q)
          /\ opc = "done" =>
                 /\ opc' = "done"
                 /\ ret' = EmptyPoolReturn
                 /\ \A t \in Tasks : tasks'[t] = NewTask
                 /\ UNCHANGED <<q, stats, health, RATE_LIMITED>>]_vars

\* A call with two sessions has ended with the signal set and no post, and
\* a call made after it has returned the empty result.
C39_Witness ==
    /\ opc = "done"
    /\ log = "error_no_proxies"
    /\ n_proxies = 0
    /\ total_loaded = 2
    /\ Remaining(q) = 0
    /\ RATE_LIMITED
    /\ health.sessions_run = 2
    /\ health.sessions_ok = 2
    /\ health.total_tweets = 0
    /\ ret = EmptyPoolReturn
    /\ \A t \in Tasks : tasks[t] = NewTask

\* --- C40
\* The session has left scrape() at one of its two tests of the signal
\* (lines 427, 435): it opened and never navigated.
SkippedNavigation(t) ==
    /\ tasks[t].pc = "scraped"
    /\ tasks[t].opened
    /\ ~tasks[t].navigated

\* C40: a session that opened and left scrape() without navigating holds an
\* empty buffer, and the step in which its _run_session returns records it
\* as a success with 0 posts: in the pool statistics under its proxy, where
\* the summary counts it among the sessions that are ok, and in the health
\* totals, where sessions_run and sessions_ok grow by one and total_tweets
\* stays.  Such a session exists only while the signal is set.
C40_SkippedCountsAsOk ==
    /\ [](\A t \in Tasks : SkippedNavigation(t) =>
              /\ RATE_LIMITED
              /\ tasks[t].bucket = <<>>
              /\ tasks[t].profile = <<>>)
    /\ [][\A t \in Tasks :
             (SkippedNavigation(t) /\ tasks'[t].pc = "done") =>
                 LET u == tasks[t].proxy
                 IN  /\ tasks'[t].rec = <<[success |-> TRUE, tweets |-> 0]>>
                     /\ tasks'[t].out_tweets = <<>>
                     /\ u \in DOMAIN stats'
                     /\ stats'[u] = [success |-> TRUE, tweets |-> 0, elapsed |-> Elapsed]
                     /\ Summary(stats', total_loaded).ok >= 1
                     /\ Summary(stats', total_loaded).ok >= Summary(stats, total_loaded).ok
                     /\ health'.sessions_run = health.sessions_run + 1
                     /\ health'.sessions_ok = health.sessions_ok + 1
                     /\ health'.total_tweets = health.total_tweets
        ]_vars

\* One session is in its first scroll step, where the rate-limit response
\* reached it and the signal was set; the other one has returned, recorded
\* as the one successful session of the call, with no post.
C40_Witness ==
    /\ RATE_LIMITED
    /\ opc = "running"
    /\ health.sessions_run = 1
    /\ health.sessions_ok = 1
    /\ health.total_tweets = 0
    /\ Summary(stats, total_loaded).ok = 1
    /\ Summary(stats, total_loaded).tweets = 0
    /\ \E t1, t2 \in Tasks :
          /\ tasks[t1].pc = "done"
          /\ tasks[t1].opened
          /\ ~tasks[t1].raised
          /\ tasks[t1].rec = <<[success |-> TRUE, tweets |-> 0]>>
          /\ tasks[t2].pc = "scrolling"
          /\ tasks[t2].scroll_n = 1
          /\ tasks[t2].nresp = 1
          /\ tasks[t2].bucket = <<>>

====
